---- MODULE Spec2Model ----
(***************************************************************************)
(* A model of the HTML and CSS tokenizers and parsers.                     *)
(*                                                                         *)
(* Text is a sequence of one-character strings, so that the character-wise *)
(* operations of the code (trim, to_lowercase, consume_while) are computed *)
(* and not assumed.  An Option is a record: None, or a value with a kind.  *)
(***************************************************************************)
EXTENDS Integers, Sequences, FiniteSets, TLC

VARIABLES
    ht_input,        \* HtmlTokenizer.input
    ht_position,     \* HtmlTokenizer.position, a byte offset into input
    ht_current_char, \* HtmlTokenizer.current_char
    ht_before,       \* the position at which the last call of next_token began
    ht_ret,          \* what the last call of next_token returned
    ht_emitted,      \* the tokens returned so far, in order
    ht_written,      \* the attributes the input's tag was written with, or Unset
    ct_input,        \* CssTokenizer.input
    ct_position,     \* CssTokenizer.position, a byte offset into input
    ct_current_char, \* CssTokenizer.current_char
    ct_before,       \* the position at which the last call of next_token began
    ct_ret,          \* what the last call of next_token returned
    ct_emitted,      \* the tokens returned so far, in order
    cp_tokens,       \* CssParser.tokens
    cp_position,     \* CssParser.position
    cp_selectors,    \* the local `selectors` of the parse_rule call in progress
    cp_declarations, \* the local `declarations` of the parse_rule call in progress
    cp_rules,        \* the local `rules` of CssParser::parse
    cp_pc,           \* where CssParser::parse stands
    cp_start,        \* the position at which the last call of parse_rule began
    cp_written,      \* the stylesheet the token buffer was written from, or Unset
    hp_tokens,       \* HtmlParser.tokens
    hp_position,     \* HtmlParser.position
    hp_stack,        \* the open parse_element calls, outermost first: each its element so far
    hp_nodes,        \* the local `nodes` of HtmlParser::parse
    hp_pc,           \* where HtmlParser::parse / parse_document stands
    hp_document      \* what parse_document returned

ht_vars ==
    <<ht_input, ht_position, ht_current_char, ht_before, ht_ret, ht_emitted, ht_written>>

ct_vars == <<ct_input, ct_position, ct_current_char, ct_before, ct_ret, ct_emitted>>

cp_vars ==
    <<cp_tokens, cp_position, cp_selectors, cp_declarations, cp_rules, cp_pc, cp_start,
      cp_written>>

hp_vars == <<hp_tokens, hp_position, hp_stack, hp_nodes, hp_pc, hp_document>>

vars == <<ht_vars, ct_vars, cp_vars, hp_vars>>

----------------------------------------------------------------------------
(* Bounds *)

MaxTokens == 4

MaxInput == 4

MaxCssInput == 3

MaxAttrs == 3

\* the length of the token buffers the CSS parser is run on
MaxCssTokens == 4

\* the selectors of a written selector list
MaxSelectors == 3

\* the value tokens of a written declaration
MaxValue == 3

\* the rules of a written stylesheet
MaxRules == 2

\* the tokens after the LeftBrace of a rule body the CSS parser is run on
MaxBody == 4

\* the characters after the '<!--' of a comment the HTML tokenizer is run on
MaxComment == 5

\* the characters after the opening quote of an attribute value no quote closes
MaxQuoted == 2

\* the characters after the opening quote of a CSS string
MaxCssString == 4

----------------------------------------------------------------------------
(* Options and text *)

None == [kind |-> "None"]

Last(s) == s[Len(s)]

Front(s) == SubSeq(s, 1, Len(s) - 1)

\* char::is_whitespace, on the characters the model uses
IsWhitespace(c) == c \in {" ", "\t", "\n", "\r", "\f"}

UpperChars == <<"A","B","C","D","E","F","G","H","I","J","K","L","M",
                "N","O","P","Q","R","S","T","U","V","W","X","Y","Z">>

LowerChars == <<"a","b","c","d","e","f","g","h","i","j","k","l","m",
                "n","o","p","q","r","s","t","u","v","w","x","y","z">>

LowerChar(c) ==
    IF \E i \in 1..Len(UpperChars) : UpperChars[i] = c
    THEN LowerChars[CHOOSE i \in 1..Len(UpperChars) : UpperChars[i] = c]
    ELSE c

\* str::to_lowercase
ToLowercase(s) == [i \in 1..Len(s) |-> LowerChar(s[i])]

RECURSIVE TrimStart(_)
TrimStart(s) ==
    IF s # <<>> /\ IsWhitespace(Head(s)) THEN TrimStart(Tail(s)) ELSE s

RECURSIVE TrimEnd(_)
TrimEnd(s) ==
    IF s # <<>> /\ IsWhitespace(Last(s)) THEN TrimEnd(Front(s)) ELSE s

\* str::trim
Trim(s) == TrimEnd(TrimStart(s))

----------------------------------------------------------------------------
(* HtmlToken *)

StartTag(name, attributes, self_closing) ==
    [kind |-> "StartTag", name |-> name, attributes |-> attributes,
     self_closing |-> self_closing]

EndTag(name) == [kind |-> "EndTag", name |-> name]

Text(text) == [kind |-> "Text", text |-> text]

Comment(text) == [kind |-> "Comment", text |-> text]

Doctype(text) == [kind |-> "Doctype", text |-> text]

----------------------------------------------------------------------------
(* Characters.  A position is a byte offset, and a character of the input  *)
(* may be wider than one byte.                                             *)

NoChar == ""

Letters == {"a", "b", "k", "j", "x", "é"}

Digits == {"0", "1", "2"}

\* char::len_utf8
len_utf8(c) == IF c = "é" THEN 2 ELSE 1

\* char::is_alphabetic
IsAlphabetic(c) ==
    \/ c \in Letters
    \/ \E i \in 1..Len(UpperChars) : c = UpperChars[i] \/ c = LowerChars[i]

\* char::is_ascii_digit
IsAsciiDigit(c) == c \in Digits

\* char::is_alphanumeric
IsAlphanumeric(c) == IsAlphabetic(c) \/ IsAsciiDigit(c)

RECURSIVE ByteLen(_)
\* str::len
ByteLen(input) ==
    IF input = <<>> THEN 0 ELSE len_utf8(Head(input)) + ByteLen(Tail(input))

RECURSIVE CharIndex(_, _, _, _)
\* the index of the character of input that starts at byte offset position,
\* counting from character i at offset off
CharIndex(input, position, i, off) ==
    IF off >= position \/ i > Len(input) THEN i
    ELSE CharIndex(input, position, i + 1, off + len_utf8(input[i]))

\* input[position..].chars().nth(n)
CharAt(input, position, n) ==
    LET i == CharIndex(input, position, 1, 0) + n IN
    IF i <= Len(input) THEN input[i] ELSE NoChar

----------------------------------------------------------------------------
(* HtmlTokenizer.  A cursor is the pair (position, current_char); each      *)
(* method takes the cursor it is called with and gives the cursor it leaves *)
(* (with its result, when it has one).                                      *)

Cursor(position, current_char) ==
    [position |-> position, current_char |-> current_char]

ht_advance(s) ==
    IF s.position < ByteLen(ht_input)
    THEN LET p == s.position
                    + (IF s.current_char = NoChar THEN 0 ELSE len_utf8(s.current_char))
         IN Cursor(p, CharAt(ht_input, p, 0))
    ELSE Cursor(s.position, NoChar)

ht_peek(s) ==
    IF s.position < ByteLen(ht_input) THEN CharAt(ht_input, s.position, 1) ELSE NoChar

RECURSIVE ht_consume_from(_, _, _)
ht_consume_from(s, result, predicate) ==
    IF s.current_char # NoChar /\ predicate[s.current_char]
    THEN ht_consume_from(ht_advance(s), Append(result, s.current_char), predicate)
    ELSE [s |-> s, out |-> result]

\* a predicate is a function on the characters of the input
ht_consume_while(s, predicate) == ht_consume_from(s, <<>>, predicate)

\* the characters a predicate of consume_while is asked about
HtChars == {ht_input[i] : i \in DOMAIN ht_input}

ht_skip_whitespace(s) ==
    ht_consume_while(s, [c \in HtChars |-> IsWhitespace(c)]).s

ht_parse_tag_name(s) ==
    ht_consume_while(s, [c \in HtChars |-> IsAlphanumeric(c) \/ c = "-" \/ c = "_"])

ht_parse_attribute_name(s) ==
    ht_consume_while(s, [c \in HtChars |-> IsAlphanumeric(c) \/ c = "-" \/ c = "_" \/ c = ":"])

ht_parse_quoted(s, quote) ==
    LET value == ht_consume_while(ht_advance(s), [c \in HtChars |-> c # quote]) IN
    [s |-> IF value.s.current_char = quote THEN ht_advance(value.s) ELSE value.s,
     out |-> value.out]

ht_parse_attribute_value(s0) ==
    LET s == ht_skip_whitespace(s0) IN
    IF s.current_char = "\"" THEN ht_parse_quoted(s, "\"")
    ELSE IF s.current_char = "'" THEN ht_parse_quoted(s, "'")
    ELSE ht_consume_while(s, [c \in HtChars |-> ~IsWhitespace(c) /\ c # ">" /\ c # "/"])

RECURSIVE ht_parse_attributes_from(_, _)
ht_parse_attributes_from(s0, attributes) ==
    IF s0.current_char \in {NoChar, ">", "/"} THEN [s |-> s0, out |-> attributes]
    ELSE LET s1 == ht_skip_whitespace(s0) IN
         IF s1.current_char \in {NoChar, ">", "/"} THEN [s |-> s1, out |-> attributes]
         ELSE LET name == ht_parse_attribute_name(s1) IN
              IF name.out = <<>> THEN [s |-> name.s, out |-> attributes]
              ELSE LET s2 == ht_skip_whitespace(name.s)
                       value == IF s2.current_char = "="
                                THEN ht_parse_attribute_value(ht_advance(s2))
                                ELSE [s |-> s2, out |-> <<>>]
                   IN ht_parse_attributes_from(
                          value.s, Append(attributes, <<name.out, value.out>>))

RECURSIVE DropRepeated(_)
DropRepeated(attributes) ==
    IF attributes = <<>> THEN <<>>
    ELSE IF \E i \in 2..Len(attributes) : attributes[i][1] = Head(attributes)[1]
    THEN DropRepeated(Tail(attributes))
    ELSE <<Head(attributes)>> \o DropRepeated(Tail(attributes))

\* parse_attributes keeping one pair per name
ht_parse_attributes_unique(s) ==
    LET parsed == ht_parse_attributes_from(s, <<>>) IN
    [s |-> parsed.s, out |-> DropRepeated(parsed.out)]

ht_parse_attributes(s) == ht_parse_attributes_from(s, <<>>)

\* parse_comment giving nothing when the input ends before a terminator
RECURSIVE ht_parse_comment_from_Strict(_, _)
ht_parse_comment_from_Strict(s, comment) ==
    IF s.current_char = NoChar THEN [s |-> s, out |-> <<>>]
    ELSE IF s.current_char = "-" /\ ht_peek(s) = "-"
    THEN LET s2 == ht_advance(ht_advance(s)) IN
         IF s2.current_char = ">" THEN [s |-> ht_advance(s2), out |-> comment]
         ELSE ht_parse_comment_from_Strict(s2, comment \o <<"-", "-">>)
    ELSE ht_parse_comment_from_Strict(ht_advance(s), Append(comment, s.current_char))

RECURSIVE ht_parse_comment_from(_, _)
ht_parse_comment_from(s, comment) ==
    IF s.current_char = NoChar THEN [s |-> s, out |-> comment]
    ELSE IF s.current_char = "-" /\ ht_peek(s) = "-"
    THEN LET s2 == ht_advance(ht_advance(s)) IN
         IF s2.current_char = ">" THEN [s |-> ht_advance(s2), out |-> comment]
         ELSE ht_parse_comment_from(s2, comment \o <<"-", "-">>)
    ELSE ht_parse_comment_from(ht_advance(s), Append(comment, s.current_char))

ht_parse_comment(s) == ht_parse_comment_from(s, <<>>)

ht_parse_doctype(s) == ht_consume_while(s, [c \in HtChars |-> c # ">"])

ht_skip_gt(s) == IF s.current_char = ">" THEN ht_advance(s) ELSE s

\* next_token after '<' '!'
ht_markup_declaration(s) ==
    IF s.current_char = "-" /\ ht_peek(s) = "-"
    THEN LET comment == ht_parse_comment(ht_advance(ht_advance(s))) IN
         [s |-> comment.s, ret |-> Comment(comment.out)]
    ELSE LET doctype == ht_parse_doctype(s) IN
         [s |-> ht_skip_gt(doctype.s), ret |-> Doctype(doctype.out)]

\* next_token after '<' '/'
ht_end_tag(s) ==
    LET name == ht_parse_tag_name(s) IN
    [s |-> ht_skip_gt(ht_skip_whitespace(name.s)), ret |-> EndTag(name.out)]

\* next_token after '<', on a start tag
ht_start_tag(s) ==
    LET name == ht_parse_tag_name(s)
        attributes == ht_parse_attributes(name.s)
        self_closing == attributes.s.current_char = "/"
        s2 == IF self_closing THEN ht_advance(attributes.s) ELSE attributes.s
    IN [s |-> ht_skip_gt(s2),
        ret |-> StartTag(name.out, attributes.out, self_closing)]

\* the text arm with a run that ends before a '>' as well
ht_text_StopAtGt(s) ==
    LET text == ht_consume_while(s, [c \in HtChars |-> c \notin {"<", ">"}]) IN
    [s |-> text.s, ret |-> IF text.out # <<>> THEN Text(text.out) ELSE None]

\* next_token on a character other than '<'
ht_text(s) ==
    LET text == ht_consume_while(s, [c \in HtChars |-> c # "<"]) IN
    [s |-> text.s, ret |-> IF text.out # <<>> THEN Text(text.out) ELSE None]

\* the '<' arm without its first advance()
ht_markup_NoSkip(s) ==
    LET s1 == s IN
    IF s1.current_char = "!" THEN ht_markup_declaration(ht_advance(s1))
    ELSE IF s1.current_char = "/" THEN ht_end_tag(ht_advance(s1))
    ELSE ht_start_tag(s1)

\* next_token on '<'
ht_markup(s) ==
    LET s1 == ht_advance(s) IN
    IF s1.current_char = "!" THEN ht_markup_declaration(ht_advance(s1))
    ELSE IF s1.current_char = "/" THEN ht_end_tag(ht_advance(s1))
    ELSE ht_start_tag(s1)

ht_next_token(s0) ==
    LET s == ht_skip_whitespace(s0) IN
    IF s.current_char = NoChar THEN [s |-> s, ret |-> None]
    ELSE IF s.current_char = "<" THEN ht_markup(s)
    ELSE ht_text(s)

Unset == [kind |-> "Unset"]

\* Iterator::next
HtNext ==
    \E r \in {ht_next_token(Cursor(ht_position, ht_current_char))} :
        /\ ht_position' = r.s.position
        /\ ht_current_char' = r.s.current_char
        /\ ht_before' = ht_position
        /\ ht_ret' = r.ret
        /\ ht_emitted' = IF r.ret # None THEN Append(ht_emitted, r.ret) ELSE ht_emitted
        /\ UNCHANGED <<ht_input, ht_written, ct_vars, cp_vars, hp_vars>>

\* HtmlTokenizer::new
HtNew(input) ==
    /\ ht_input = input
    /\ ht_position = 0
    /\ ht_current_char = CharAt(input, 0, 0)
    /\ ht_before = 0
    /\ ht_ret = Unset
    /\ ht_emitted = <<>>

\* no HTML tokenizer is under study
HtIdle == HtNew(<<>>) /\ ht_written = Unset

----------------------------------------------------------------------------
(* The inputs the HTML tokenizer is run on: every text of at most MaxInput  *)
(* characters of HtAlphabet, and every start tag written with at most       *)
(* MaxAttrs attributes of AttrForms.                                        *)

HtAlphabet == {"<", ">", "/", "!", "-", "a", " ", "é"}

HtTexts == UNION {[1..n -> HtAlphabet] : n \in 0..MaxInput}

\* an attribute as written: bare name, or name = value, the value in double
\* quotes, in single quotes or unquoted
AttrForm(name, form, value) == [name |-> name, form |-> form, value |-> value]

AttrForms ==
    { AttrForm(n, "none", <<>>) : n \in {<<"k">>, <<"j">>} }
    \cup { AttrForm(n, "dq", v) : n \in {<<"k">>, <<"j">>}, v \in {<<>>, <<"1", ">">>} }
    \cup { AttrForm(n, "sq", <<"2", " ">>) : n \in {<<"k">>, <<"j">>} }
    \cup { AttrForm(n, "bare", <<"1">>) : n \in {<<"k">>, <<"j">>} }

WriteAttr(a) ==
    <<" ">> \o a.name \o
        CASE a.form = "none" -> <<>>
          [] a.form = "dq" -> <<"=", "\"">> \o a.value \o <<"\"">>
          [] a.form = "sq" -> <<" ", "=", " ", "'">> \o a.value \o <<"'">>
          [] a.form = "bare" -> <<"=">> \o a.value

RECURSIVE WriteAttrs(_)
WriteAttrs(written) ==
    IF written = <<>> THEN <<>>
    ELSE WriteAttr(Head(written)) \o WriteAttrs(Tail(written))

WriteTag(written) == <<"<", "a">> \o WriteAttrs(written) \o <<">">>

Written(attributes) == [kind |-> "Written", attributes |-> attributes]

HtTags == UNION {[1..n -> AttrForms] : n \in 0..MaxAttrs}

\* the tags cut short in a quoted attribute value: the quote is not closed
HtOpenQuotes ==
    { <<"<", "a", " ", "k", "=", quote>> \o tail :
        quote \in {"\"", "'"},
        tail \in UNION {[1..n -> {"1", ">", " "}] : n \in 0..MaxQuoted} }

\* the comments: '<!--' and at most MaxComment characters of dashes, '>' and text
HtComments ==
    { <<"<", "!", "-", "-">> \o tail :
        tail \in UNION {[1..n -> {"-", ">", "a"}] : n \in 0..MaxComment} }

----------------------------------------------------------------------------
(* CssToken *)

CssIdent(name) == [kind |-> "Ident", name |-> name]

CssString(text) == [kind |-> "String", text |-> text]

CssNumber(value) == [kind |-> "Number", value |-> value]

CssDimension(value, unit) == [kind |-> "Dimension", value |-> value, unit |-> unit]

CssPercentage(value) == [kind |-> "Percentage", value |-> value]

CssHash(name) == [kind |-> "Hash", name |-> name]

CssDelim(c) == [kind |-> "Delim", char |-> c]

CssWhitespace == [kind |-> "Whitespace"]

CssComment(text) == [kind |-> "Comment", text |-> text]

CssAtKeyword(name) == [kind |-> "AtKeyword", name |-> name]

\* the one-character tokens of next_token
Punctuation ==
    [c \in {"(", ")", "{", "}", "[", "]", ",", ":", ";"} |->
        CASE c = "(" -> "LeftParen"   [] c = ")" -> "RightParen"
          [] c = "{" -> "LeftBrace"   [] c = "}" -> "RightBrace"
          [] c = "[" -> "LeftBracket" [] c = "]" -> "RightBracket"
          [] c = "," -> "Comma"       [] c = ":" -> "Colon"
          [] c = ";" -> "Semicolon"]

CssPunct(c) == [kind |-> Punctuation[c]]

----------------------------------------------------------------------------
(* f64, as far as the tokenizer makes one: the value of a run of digits and *)
(* '.' is its integer part and its fraction digits without trailing zeros;  *)
(* a run str::parse rejects (more than one '.') is 0.0.                     *)

DigitValue(c) == CASE c = "0" -> 0 [] c = "1" -> 1 [] c = "2" -> 2

RECURSIVE NatOf(_, _)
NatOf(digits, acc) ==
    IF digits = <<>> THEN acc
    ELSE NatOf(Tail(digits), 10 * acc + DigitValue(Head(digits)))

RECURSIVE StripZeros(_)
StripZeros(digits) ==
    IF digits # <<>> /\ Last(digits) = "0" THEN StripZeros(Front(digits)) ELSE digits

F64(int, frac) == [int |-> int, frac |-> frac]

\* str::parse::<f64>().unwrap_or(0.0) on a run of digits and '.' that begins
\* with a digit
ParseF64(run) ==
    LET dots == {i \in DOMAIN run : run[i] = "."} IN
    IF Cardinality(dots) > 1 THEN F64(0, <<>>)
    ELSE IF dots = {} THEN F64(NatOf(run, 0), <<>>)
    ELSE LET d == CHOOSE i \in dots : TRUE IN
         F64(NatOf(SubSeq(run, 1, d - 1), 0), StripZeros(SubSeq(run, d + 1, Len(run))))

----------------------------------------------------------------------------
(* CssTokenizer *)

ct_advance(s) ==
    IF s.position < ByteLen(ct_input)
    THEN LET p == s.position
                    + (IF s.current_char = NoChar THEN 0 ELSE len_utf8(s.current_char))
         IN Cursor(p, CharAt(ct_input, p, 0))
    ELSE Cursor(s.position, NoChar)

ct_peek(s) ==
    IF s.position < ByteLen(ct_input) THEN CharAt(ct_input, s.position, 1) ELSE NoChar

RECURSIVE ct_consume_from(_, _, _)
ct_consume_from(s, result, predicate) ==
    IF s.current_char # NoChar /\ predicate[s.current_char]
    THEN ct_consume_from(ct_advance(s), Append(result, s.current_char), predicate)
    ELSE [s |-> s, out |-> result]

ct_consume_while(s, predicate) == ct_consume_from(s, <<>>, predicate)

\* the characters a predicate of consume_while is asked about
CtChars == {ct_input[i] : i \in DOMAIN ct_input}

\* parse_string with the quote after a backslash closing the string
RECURSIVE ct_parse_string_from_NoEscape(_, _, _)
ct_parse_string_from_NoEscape(s, quote, result) ==
    IF s.current_char = NoChar THEN [s |-> s, out |-> result]
    ELSE IF s.current_char = quote THEN [s |-> ct_advance(s), out |-> result]
    ELSE IF s.current_char = "\\"
    THEN ct_parse_string_from_NoEscape(ct_advance(s), quote, result)
    ELSE ct_parse_string_from_NoEscape(ct_advance(s), quote, Append(result, s.current_char))

RECURSIVE ct_parse_string_from(_, _, _)
ct_parse_string_from(s, quote, result) ==
    IF s.current_char = NoChar THEN [s |-> s, out |-> result]
    ELSE IF s.current_char = quote THEN [s |-> ct_advance(s), out |-> result]
    ELSE IF s.current_char = "\\"
    THEN LET s1 == ct_advance(s) IN
         IF s1.current_char # NoChar
         THEN ct_parse_string_from(ct_advance(s1), quote, Append(result, s1.current_char))
         ELSE ct_parse_string_from(s1, quote, result)
    ELSE ct_parse_string_from(ct_advance(s), quote, Append(result, s.current_char))

ct_parse_string(s, quote) == ct_parse_string_from(ct_advance(s), quote, <<>>)

\* parse_number with a run that ends before a second '.'
ct_parse_number_OneDot(s) ==
    LET int == ct_consume_while(s, [c \in CtChars |-> IsAsciiDigit(c)])
        frac == IF int.s.current_char = "."
                THEN ct_consume_while(ct_advance(int.s), [c \in CtChars |-> IsAsciiDigit(c)])
                ELSE [s |-> int.s, out |-> <<>>] IN
    [s |-> frac.s, out |-> F64(NatOf(int.out, 0), StripZeros(frac.out))]

ct_parse_number(s) ==
    LET run == ct_consume_while(s, [c \in CtChars |-> IsAsciiDigit(c) \/ c = "."]) IN
    [s |-> run.s, out |-> ParseF64(run.out)]

ct_parse_ident(s) ==
    ct_consume_while(s, [c \in CtChars |-> IsAlphanumeric(c) \/ c = "-" \/ c = "_"])

RECURSIVE ct_parse_comment_from(_, _)
ct_parse_comment_from(s, comment) ==
    IF s.current_char = NoChar THEN [s |-> s, out |-> comment]
    ELSE IF s.current_char = "*" /\ ct_peek(s) = "/"
    THEN [s |-> ct_advance(ct_advance(s)), out |-> comment]
    ELSE ct_parse_comment_from(ct_advance(s), Append(comment, s.current_char))

ct_parse_comment(s) == ct_parse_comment_from(ct_advance(ct_advance(s)), <<>>)

\* the arm with the unit read ahead and the cursor left before it
ct_numeric_UnitAhead(s) ==
    LET number == ct_parse_number(s) IN
    IF number.s.current_char = "%"
    THEN [s |-> ct_advance(number.s), ret |-> CssPercentage(number.out)]
    ELSE IF number.s.current_char # NoChar /\ IsAlphabetic(number.s.current_char)
    THEN LET unit == ct_parse_ident(number.s) IN
         [s |-> number.s, ret |-> CssDimension(number.out, unit.out)]
    ELSE [s |-> number.s, ret |-> CssNumber(number.out)]

\* next_token on an ASCII digit
ct_numeric(s) ==
    LET number == ct_parse_number(s) IN
    IF number.s.current_char = "%"
    THEN [s |-> ct_advance(number.s), ret |-> CssPercentage(number.out)]
    ELSE IF number.s.current_char # NoChar /\ IsAlphabetic(number.s.current_char)
    THEN LET unit == ct_parse_ident(number.s) IN
         [s |-> unit.s, ret |-> CssDimension(number.out, unit.out)]
    ELSE [s |-> number.s, ret |-> CssNumber(number.out)]

\* the '#' arm without its advance()
ct_hash_NoSkip(s) ==
    LET hash == ct_parse_ident(s) IN
    [s |-> hash.s, ret |-> CssHash(hash.out)]

\* next_token on '#'
ct_hash(s) ==
    LET hash == ct_parse_ident(ct_advance(s)) IN
    [s |-> hash.s, ret |-> CssHash(hash.out)]

\* next_token on '@'
ct_at_keyword(s) ==
    LET keyword == ct_parse_ident(ct_advance(s)) IN
    [s |-> keyword.s, ret |-> CssAtKeyword(keyword.out)]

\* the arm of next_token's match that the current character selects
ct_branch(s) ==
    LET c == s.current_char IN
    CASE c = NoChar -> "end"
      [] c \in {" ", "\t", "\n", "\r"} -> "whitespace"
      [] c = "/" /\ ct_peek(s) = "*" -> "comment"
      [] c \in {"\"", "'"} -> "string"
      [] c = "#" -> "hash"
      [] c = "@" -> "at-keyword"
      [] c \in DOMAIN Punctuation -> "punctuation"
      [] OTHER -> IF IsAsciiDigit(c) THEN "number"
                  ELSE IF IsAlphabetic(c) \/ c = "-" \/ c = "_" THEN "identifier"
                  ELSE "delimiter"

ct_next_token(s) ==
    LET c == s.current_char
        branch == ct_branch(s)
    IN
    CASE branch = "end" -> [s |-> s, ret |-> None]
      [] branch = "whitespace" ->
            [s |-> ct_consume_while(s, [w \in CtChars |-> IsWhitespace(w)]).s,
             ret |-> CssWhitespace]
      [] branch = "comment" ->
            LET comment == ct_parse_comment(s) IN
            [s |-> comment.s, ret |-> CssComment(comment.out)]
      [] branch = "string" ->
            LET string == ct_parse_string(s, c) IN
            [s |-> string.s, ret |-> CssString(string.out)]
      [] branch = "hash" -> ct_hash(s)
      [] branch = "at-keyword" -> ct_at_keyword(s)
      [] branch = "punctuation" -> [s |-> ct_advance(s), ret |-> CssPunct(c)]
      [] branch = "number" -> ct_numeric(s)
      [] branch = "identifier" ->
            LET ident == ct_parse_ident(s) IN
            [s |-> ident.s, ret |-> CssIdent(ident.out)]
      [] branch = "delimiter" -> [s |-> ct_advance(s), ret |-> CssDelim(c)]

\* Iterator::next
CtNext ==
    \E r \in {ct_next_token(Cursor(ct_position, ct_current_char))} :
        /\ ct_position' = r.s.position
        /\ ct_current_char' = r.s.current_char
        /\ ct_before' = ct_position
        /\ ct_ret' = r.ret
        /\ ct_emitted' = IF r.ret # None THEN Append(ct_emitted, r.ret) ELSE ct_emitted
        /\ UNCHANGED <<ct_input, ht_vars, cp_vars, hp_vars>>

\* CssTokenizer::new
CtNew(input) ==
    /\ ct_input = input
    /\ ct_position = 0
    /\ ct_current_char = CharAt(input, 0, 0)
    /\ ct_before = 0
    /\ ct_ret = Unset
    /\ ct_emitted = <<>>

\* no CSS tokenizer is under study
CtIdle == CtNew(<<>>)

\* the inputs the CSS tokenizer is run on: every text of at most MaxCssInput
\* characters of CssAlphabet
CssAlphabet ==
    {" ", "\f", "/", "*", "\"", "\\", "#", "@", "{", "1", ".", "%", "a", "-", "é"}

CssTexts == UNION {[1..n -> CssAlphabet] : n \in 0..MaxCssInput}

\* the strings: a quote and at most MaxCssString quotes, backslashes and letters
CssStrings ==
    { <<quote>> \o tail :
        quote \in {"\"", "'"},
        tail \in UNION {[1..n -> {"\"", "'", "\\", "a"}] : n \in 0..MaxCssString} }

----------------------------------------------------------------------------
(* Selector, Declaration, Rule *)

\* Selector::Type
SelType(name) == [kind |-> "Type", name |-> name]

\* Selector::Class
SelClass(name) == [kind |-> "Class", name |-> name]

\* Selector::Id
SelId(name) == [kind |-> "Id", name |-> name]

\* Selector::Universal
SelUniversal == [kind |-> "Universal"]

\* Selector::Descendant
SelDescendant(left, right) == [kind |-> "Descendant", left |-> left, right |-> right]

Declaration(property, value, important) ==
    [property |-> property, value |-> value, important |-> important]

Rule(selectors, declarations) == [selectors |-> selectors, declarations |-> declarations]

----------------------------------------------------------------------------
(* CssParser *)

\* CssParser::current_token with the parser at position p
cp_current_token(p) == IF p < Len(cp_tokens) THEN cp_tokens[p + 1] ELSE None

\* CssParser::advance
cp_advance(p) == IF p < Len(cp_tokens) THEN p + 1 ELSE p

IsIdent(t) == t.kind = "Ident"

IsDelim(t, c) == t.kind = "Delim" /\ t.char = c

\* parse_selector reading two adjacent type selectors as a descendant selector
cp_parse_selector_Descendant(p) ==
    LET t == cp_current_token(p)
        q == cp_advance(p)
        u == cp_current_token(q) IN
    CASE t.kind = "Ident" /\ IsIdent(u) ->
            [p |-> cp_advance(q), out |-> SelDescendant(SelType(t.name), SelType(u.name))]
      [] t.kind = "Ident" /\ ~IsIdent(u) -> [p |-> q, out |-> SelType(t.name)]
      [] t.kind = "Hash" -> [p |-> q, out |-> SelId(t.name)]
      [] IsDelim(t, ".") ->
            IF IsIdent(u) THEN [p |-> cp_advance(q), out |-> SelClass(u.name)]
            ELSE [p |-> q, out |-> None]
      [] IsDelim(t, "*") -> [p |-> q, out |-> SelUniversal]
      [] OTHER -> [p |-> p, out |-> None]

\* CssParser::parse_selector: the position it leaves and the selector it returns
cp_parse_selector(p) ==
    LET t == cp_current_token(p) IN
    CASE t.kind = "Ident" -> [p |-> cp_advance(p), out |-> SelType(t.name)]
      [] t.kind = "Hash" -> [p |-> cp_advance(p), out |-> SelId(t.name)]
      [] IsDelim(t, ".") ->
            LET q == cp_advance(p)
                u == cp_current_token(q) IN
            IF IsIdent(u) THEN [p |-> cp_advance(q), out |-> SelClass(u.name)]
            ELSE [p |-> q, out |-> None]
      [] IsDelim(t, "*") -> [p |-> cp_advance(p), out |-> SelUniversal]
      [] OTHER -> [p |-> p, out |-> None]

\* the loop with each selector put before the ones already read
RECURSIVE cp_parse_selector_list_from_Prepend(_, _)
cp_parse_selector_list_from_Prepend(p, selectors) ==
    LET r == cp_parse_selector(p) IN
    IF r.out = None THEN [p |-> r.p, out |-> selectors]
    ELSE IF cp_current_token(r.p).kind = "Comma"
         THEN cp_parse_selector_list_from_Prepend(cp_advance(r.p), <<r.out>> \o selectors)
         ELSE [p |-> r.p, out |-> <<r.out>> \o selectors]

\* the while-let loop of CssParser::parse_selector_list
RECURSIVE cp_parse_selector_list_from(_, _)
cp_parse_selector_list_from(p, selectors) ==
    LET r == cp_parse_selector(p) IN
    IF r.out = None THEN [p |-> r.p, out |-> selectors]
    ELSE IF cp_current_token(r.p).kind = "Comma"
         THEN cp_parse_selector_list_from(cp_advance(r.p), Append(selectors, r.out))
         ELSE [p |-> r.p, out |-> Append(selectors, r.out)]

\* CssParser::parse_selector_list
cp_parse_selector_list(p) == cp_parse_selector_list_from(p, <<>>)

DigitChar(n) == CASE n = 0 -> "0" [] n = 1 -> "1" [] n = 2 -> "2" [] n = 3 -> "3"
                  [] n = 4 -> "4" [] n = 5 -> "5" [] n = 6 -> "6" [] n = 7 -> "7"
                  [] n = 8 -> "8" [] n = 9 -> "9"

RECURSIVE NatToString(_)
NatToString(n) ==
    IF n < 10 THEN <<DigitChar(n)>> ELSE Append(NatToString(n \div 10), DigitChar(n % 10))

\* f64::to_string: the integer part, then '.' and the fraction when there is one
F64ToString(v) == IF v.frac = <<>> THEN NatToString(v.int)
                  ELSE NatToString(v.int) \o <<".">> \o v.frac

RECURSIVE Join(_, _)
\* [String]::join
Join(parts, sep) ==
    IF parts = <<>> THEN <<>>
    ELSE IF Len(parts) = 1 THEN parts[1]
    ELSE parts[1] \o sep \o Join(Tail(parts), sep)

\* the test with any identifier taken for "important"
cp_important_follows_AnyIdent(q) == IsIdent(cp_current_token(q))

\* the test made after a '!' in CssParser::parse_declaration, at position q
cp_important_follows(q) ==
    /\ IsIdent(cp_current_token(q))
    /\ cp_current_token(q).name = <<"i","m","p","o","r","t","a","n","t">>

\* the loop over the value tokens in CssParser::parse_declaration
RECURSIVE cp_parse_value_from(_, _, _)
cp_parse_value_from(p, value_parts, important) ==
    LET t == cp_current_token(p)
        q == cp_advance(p) IN
    CASE t.kind \in {"None", "Semicolon", "RightBrace"} ->
            [p |-> p, value_parts |-> value_parts, important |-> important]
      [] IsDelim(t, "!") ->
            IF cp_important_follows(q)
            THEN cp_parse_value_from(cp_advance(q), value_parts, TRUE)
            ELSE cp_parse_value_from(q, value_parts, important)
      [] t.kind = "Ident" -> cp_parse_value_from(q, Append(value_parts, t.name), important)
      [] t.kind = "String" ->
            cp_parse_value_from(q, Append(value_parts, <<"\"">> \o t.text \o <<"\"">>),
                                important)
      [] t.kind = "Number" ->
            cp_parse_value_from(q, Append(value_parts, F64ToString(t.value)), important)
      [] t.kind = "Dimension" ->
            cp_parse_value_from(q, Append(value_parts, F64ToString(t.value) \o t.unit),
                                important)
      [] t.kind = "Percentage" ->
            cp_parse_value_from(q, Append(value_parts, F64ToString(t.value) \o <<"%">>),
                                important)
      [] t.kind = "Hash" ->
            cp_parse_value_from(q, Append(value_parts, <<"#">> \o t.name), important)
      [] t.kind = "Delim" /\ t.char # "!" ->
            cp_parse_value_from(q, Append(value_parts, <<t.char>>), important)
      [] OTHER -> cp_parse_value_from(q, value_parts, important)

\* the value text CssParser::parse_declaration makes of the value parts
cp_value_text(value_parts) ==
    IF Len(value_parts) = 1 THEN value_parts[1] ELSE Trim(Join(value_parts, <<" ">>))

\* parse_declaration passing whichever token ended the value
cp_parse_declaration_PastTerminator(p) ==
    LET t == cp_current_token(p) IN
    IF IsIdent(t)
    THEN LET q == cp_advance(p) IN
         IF cp_current_token(q).kind = "Colon"
         THEN LET v == cp_parse_value_from(cp_advance(q), <<>>, FALSE) IN
              [p |-> IF cp_current_token(v.p).kind \in {"Semicolon", "RightBrace"}
                     THEN cp_advance(v.p)
                     ELSE v.p,
               out |-> Declaration(t.name, cp_value_text(v.value_parts), v.important)]
         ELSE [p |-> q, out |-> None]
    ELSE [p |-> p, out |-> None]

\* CssParser::parse_declaration: the position it leaves and the declaration it
\* returns
cp_parse_declaration(p) ==
    LET t == cp_current_token(p) IN
    IF IsIdent(t)
    THEN LET q == cp_advance(p) IN
         IF cp_current_token(q).kind = "Colon"
         THEN LET v == cp_parse_value_from(cp_advance(q), <<>>, FALSE) IN
              [p |-> IF cp_current_token(v.p).kind = "Semicolon" THEN cp_advance(v.p)
                     ELSE v.p,
               out |-> Declaration(t.name, cp_value_text(v.value_parts), v.important)]
         ELSE [p |-> q, out |-> None]
    ELSE [p |-> p, out |-> None]

\* parse_rule without the return on an empty selector list
cp_rule_abandoned_BraceOnly(sel) == cp_current_token(sel.p).kind # "LeftBrace"

\* the two early returns of CssParser::parse_rule, after its selector list sel
cp_rule_abandoned(sel) ==
    \/ sel.out = <<>>
    \/ cp_current_token(sel.p).kind # "LeftBrace"

\* the condition of the while loop over the declarations in CssParser::parse_rule
cp_in_rule_body ==
    /\ cp_current_token(cp_position).kind # "RightBrace"
    /\ cp_position < Len(cp_tokens)

\* the iteration without the advance of the else branch
CpRuleAbandoned_NoAdvance ==
    /\ cp_pc = "top"
    /\ cp_position < Len(cp_tokens)
    /\ \E sel \in {cp_parse_selector_list(cp_position)} :
        /\ cp_rule_abandoned(sel)
        /\ cp_position' = sel.p
    /\ cp_start' = cp_position
    /\ UNCHANGED <<cp_tokens, cp_selectors, cp_declarations, cp_rules, cp_pc, cp_written>>
    /\ UNCHANGED <<ht_vars, ct_vars, hp_vars>>

\* CssParser::parse: an iteration in which parse_rule returns None, and the
\* loop advances
CpRuleAbandoned ==
    /\ cp_pc = "top"
    /\ cp_position < Len(cp_tokens)
    /\ \E sel \in {cp_parse_selector_list(cp_position)} :
        /\ cp_rule_abandoned(sel)
        /\ cp_position' = cp_advance(sel.p)
    /\ cp_start' = cp_position
    /\ UNCHANGED <<cp_tokens, cp_selectors, cp_declarations, cp_rules, cp_pc, cp_written>>
    /\ UNCHANGED <<ht_vars, ct_vars, hp_vars>>

\* CssParser::parse calls parse_rule, which reads its selector list and passes
\* the LeftBrace
CpRuleOpened ==
    /\ cp_pc = "top"
    /\ cp_position < Len(cp_tokens)
    /\ \E sel \in {cp_parse_selector_list(cp_position)} :
        /\ ~cp_rule_abandoned(sel)
        /\ cp_position' = cp_advance(sel.p)
        /\ cp_selectors' = sel.out
    /\ cp_declarations' = <<>>
    /\ cp_start' = cp_position
    /\ cp_pc' = "rule"
    /\ UNCHANGED <<cp_tokens, cp_rules, cp_written>>
    /\ UNCHANGED <<ht_vars, ct_vars, hp_vars>>

\* the iteration with declarations kept one per property, as a map would
CpDeclaration_OnePerProperty ==
    /\ cp_pc = "rule"
    /\ cp_in_rule_body
    /\ \E d \in {cp_parse_declaration(cp_position)} :
        /\ d.out # None
        /\ cp_declarations' =
              Append(SelectSeq(cp_declarations, LAMBDA e : e.property # d.out.property),
                     d.out)
        /\ cp_position' = d.p
    /\ UNCHANGED <<cp_tokens, cp_selectors, cp_rules, cp_pc, cp_start, cp_written>>
    /\ UNCHANGED <<ht_vars, ct_vars, hp_vars>>

\* parse_rule: an iteration of the loop in which parse_declaration returns a
\* declaration
CpDeclaration ==
    /\ cp_pc = "rule"
    /\ cp_in_rule_body
    /\ \E d \in {cp_parse_declaration(cp_position)} :
        /\ d.out # None
        /\ cp_declarations' = Append(cp_declarations, d.out)
        /\ cp_position' = d.p
    /\ UNCHANGED <<cp_tokens, cp_selectors, cp_rules, cp_pc, cp_start, cp_written>>
    /\ UNCHANGED <<ht_vars, ct_vars, hp_vars>>

\* parse_rule: an iteration of the loop in which parse_declaration returns None,
\* and the loop advances
CpDeclarationFailed ==
    /\ cp_pc = "rule"
    /\ cp_in_rule_body
    /\ \E d \in {cp_parse_declaration(cp_position)} :
        /\ d.out = None
        /\ cp_position' = cp_advance(d.p)
    /\ UNCHANGED <<cp_tokens, cp_selectors, cp_declarations, cp_rules, cp_pc, cp_start,
                   cp_written>>
    /\ UNCHANGED <<ht_vars, ct_vars, hp_vars>>

\* parse_rule leaves its loop, passes the RightBrace if there is one and returns
\* the rule, which CssParser::parse pushes
CpRuleClose ==
    /\ cp_pc = "rule"
    /\ ~cp_in_rule_body
    /\ cp_position' = IF cp_current_token(cp_position).kind = "RightBrace"
                      THEN cp_advance(cp_position) ELSE cp_position
    /\ cp_rules' = Append(cp_rules, Rule(cp_selectors, cp_declarations))
    /\ cp_selectors' = <<>>
    /\ cp_declarations' = <<>>
    /\ cp_pc' = "top"
    /\ UNCHANGED <<cp_tokens, cp_start, cp_written>>
    /\ UNCHANGED <<ht_vars, ct_vars, hp_vars>>

\* CssParser::parse leaves its loop and returns the rules
CpParseReturn ==
    /\ cp_pc = "top"
    /\ cp_position >= Len(cp_tokens)
    /\ cp_pc' = "returned"
    /\ UNCHANGED <<cp_tokens, cp_position, cp_selectors, cp_declarations, cp_rules,
                   cp_start, cp_written>>
    /\ UNCHANGED <<ht_vars, ct_vars, hp_vars>>

CpNext ==
    \/ CpRuleAbandoned
    \/ CpRuleOpened
    \/ CpDeclaration
    \/ CpDeclarationFailed
    \/ CpRuleClose
    \/ CpParseReturn

\* CssParser::new, given the tokens the tokenizer yields without the Whitespace
CpNew(tokens) ==
    /\ cp_tokens = SelectSeq(tokens, LAMBDA token : token # CssWhitespace)
    /\ cp_position = 0
    /\ cp_selectors = <<>>
    /\ cp_declarations = <<>>
    /\ cp_rules = <<>>
    /\ cp_pc = "top"
    /\ cp_start = 0

\* no CSS parser is under study
CpIdle ==
    /\ cp_tokens = <<>>
    /\ cp_position = 0
    /\ cp_selectors = <<>>
    /\ cp_declarations = <<>>
    /\ cp_rules = <<>>
    /\ cp_pc = "idle"
    /\ cp_start = 0
    /\ cp_written = Unset

----------------------------------------------------------------------------
(* The token buffers the CSS parser is run on *)

\* every buffer of at most MaxCssTokens tokens of CssTokenAlphabet, and the
\* buffers written from the stylesheets of Sheets
CssTokenAlphabet ==
    { CssIdent(<<"a">>),
      CssHash(<<"h">>),
      CssDelim("."),
      CssDelim("*"),
      CssPunct(","),
      CssPunct("{"),
      CssPunct("}"),
      CssPunct(":"),
      CssPunct(";") }

CssTokenBuffers == UNION {[1..n -> CssTokenAlphabet] : n \in 0..MaxCssTokens}

RECURSIVE Concat(_)
Concat(seqs) == IF seqs = <<>> THEN <<>> ELSE Head(seqs) \o Concat(Tail(seqs))

\* the tokens a simple selector is written with
WriteSelector(sel) ==
    CASE sel.kind = "Type" -> <<CssIdent(sel.name)>>
      [] sel.kind = "Id" -> <<CssHash(sel.name)>>
      [] sel.kind = "Class" -> <<CssDelim("."), CssIdent(sel.name)>>
      [] sel.kind = "Universal" -> <<CssDelim("*")>>

\* selectors separated by a comma and whitespace
WriteSelectors(selectors) ==
    Concat([i \in 1..Len(selectors) |->
                IF i = 1 THEN WriteSelector(selectors[i])
                ELSE <<CssPunct(","), CssWhitespace>> \o WriteSelector(selectors[i])])

\* value tokens separated by whitespace
WriteValue(value) ==
    Concat([i \in 1..Len(value) |->
                IF i = 1 THEN <<value[i]>> ELSE <<CssWhitespace, value[i]>>])

\* a declaration as written: its property and its value tokens
Written_Declaration(property, value) == [property |-> property, value |-> value]

WriteDeclaration(d) ==
    <<CssIdent(d.property), CssPunct(":"), CssWhitespace>> \o WriteValue(d.value)
        \o <<CssPunct(";"), CssWhitespace>>

WriteRule(r) ==
    WriteSelectors(r.selectors) \o <<CssWhitespace, CssPunct("{"), CssWhitespace>>
        \o Concat([i \in 1..Len(r.declarations) |-> WriteDeclaration(r.declarations[i])])
        \o <<CssPunct("}"), CssWhitespace>>

WriteSheet(rules) == Concat([i \in 1..Len(rules) |-> WriteRule(rules[i])])

Sheet(rules) == [kind |-> "Sheet", rules |-> rules]

SimpleSelectors == {SelType(<<"a">>), SelId(<<"h">>), SelClass(<<"c">>), SelUniversal}

SelectorLists == UNION {[1..n -> SimpleSelectors] : n \in 1..MaxSelectors}

Important == CssIdent(<<"i","m","p","o","r","t","a","n","t">>)

ValueAlphabet ==
    { CssIdent(<<"r">>),
      Important,
      CssDelim("!"),
      CssDelim("\f"),
      CssNumber(F64(1, <<"5">>)),
      CssDimension(F64(10, <<>>), <<"p","x">>),
      CssPercentage(F64(0, <<"2">>)),
      CssString(<<"s">>),
      CssHash(<<"f">>),
      CssPunct(",") }

Values == UNION {[1..n -> ValueAlphabet] : n \in 0..MaxValue}

DeclarationLists ==
    { <<>>,
      <<Written_Declaration(<<"p">>, <<CssIdent(<<"r">>)>>)>>,
      <<Written_Declaration(<<"p">>, <<CssIdent(<<"r">>)>>),
        Written_Declaration(<<"p">>, <<CssNumber(F64(1, <<"5">>)), CssIdent(<<"r">>)>>)>>,
      <<Written_Declaration(<<"p">>, <<CssIdent(<<"r">>), CssDelim("!"), Important>>),
        Written_Declaration(<<"q">>, <<>>)>> }

RuleForms ==
    { Rule(selectors, declarations) :
        selectors \in {<<SelType(<<"a">>)>>, <<SelClass(<<"c">>), SelId(<<"h">>)>>},
        declarations \in DeclarationLists }

\* the stylesheets of well-formed rules: up to MaxRules rules of RuleForms, one
\* rule under each selector list, and one rule of one declaration of each value
Sheets ==
    UNION {[1..n -> RuleForms] : n \in 0..MaxRules}
        \cup {<<Rule(selectors, <<>>)>> : selectors \in SelectorLists}
        \cup {<<Rule(<<SelType(<<"a">>)>>, <<Written_Declaration(<<"p">>, value)>>)>> :
                 value \in Values}

----------------------------------------------------------------------------
(* Node and Element *)

Element(tag_name, attributes, children) ==
    [kind |-> "Element", tag_name |-> tag_name, attributes |-> attributes,
     children |-> children]

VoidNames ==
    { <<"a","r","e","a">>, <<"b","a","s","e">>, <<"b","r">>, <<"c","o","l">>,
      <<"e","m","b","e","d">>, <<"h","r">>, <<"i","m","g">>,
      <<"i","n","p","u","t">>, <<"l","i","n","k">>, <<"m","e","t","a">>,
      <<"p","a","r","a","m">>, <<"s","o","u","r","c","e">>,
      <<"t","r","a","c","k">>, <<"w","b","r">> }

is_void_element(tag_name) == ToLowercase(tag_name) \in VoidNames

\* entry(key).or_insert(value) in place of insert(key, value)
MapInsert_KeepFirst(m, key, value) ==
    [k \in DOMAIN m \cup {key} |-> IF k \in DOMAIN m THEN m[k] ELSE value]

\* HashMap::insert: the key's earlier value, if any, is replaced
MapInsert(m, key, value) ==
    [k \in DOMAIN m \cup {key} |-> IF k = key THEN value ELSE m[k]]

EmptyMap == [k \in {} |-> <<>>]

RECURSIVE AttrMapFrom(_, _)
AttrMapFrom(m, attributes) ==
    IF attributes = <<>> THEN m
    ELSE AttrMapFrom(MapInsert(m, Head(attributes)[1], Head(attributes)[2]),
                     Tail(attributes))

\* the attr_map loop of parse_element
AttrMap(attributes) == AttrMapFrom(EmptyMap, attributes)

\* the Element parse_element builds before it reads any content
NewElement(start_tag) ==
    Element(start_tag.name, AttrMap(start_tag.attributes), <<>>)

\* the test without its is_void_element half
IsLeaf_SelfClosingOnly(start_tag) == start_tag.self_closing

\* whether parse_element returns at once, reading no content
IsLeaf(start_tag) == start_tag.self_closing \/ is_void_element(start_tag.name)

----------------------------------------------------------------------------
(* HtmlParser *)

hp_current_token ==
    IF hp_position < Len(hp_tokens) THEN hp_tokens[hp_position + 1] ELSE None

hp_advance(p) == IF p < Len(hp_tokens) THEN p + 1 ELSE p

\* children.insert(0, child) in place of children.push(child)
PushChild_Front(element, child) ==
    [element EXCEPT !.children = <<child>> \o @]

PushChild(element, child) ==
    [element EXCEPT !.children = Append(@, child)]

\* A finished node reaches the caller of parse_node: the content loop of the
\* innermost open element, or the loop of parse.
Deliver(stack, node) ==
    IF stack = <<>>
    THEN /\ hp_nodes' = Append(hp_nodes, node)
         /\ hp_stack' = <<>>
         /\ hp_pc' = "top"
    ELSE /\ hp_stack' = [stack EXCEPT ![Len(stack)] = PushChild(@, node)]
         /\ hp_nodes' = hp_nodes
         /\ hp_pc' = "elem"

\* parse_element returns its element
ReturnElement == Deliver(Front(hp_stack), Last(hp_stack))

\* parse_node on a StartTag: advance, then parse_element up to its content loop
EnterElement ==
    LET start_tag == hp_current_token IN
    /\ hp_position' = hp_advance(hp_position)
    /\ IF IsLeaf(start_tag)
       THEN Deliver(hp_stack, NewElement(start_tag))
       ELSE /\ hp_stack' = Append(hp_stack, NewElement(start_tag))
            /\ hp_nodes' = hp_nodes
            /\ hp_pc' = "elem"

\* parse: the loop test
ParseLoop ==
    /\ hp_pc = "top"
    /\ IF hp_position < Len(hp_tokens) THEN hp_pc' = "node" ELSE hp_pc' = "done"
    /\ UNCHANGED <<ht_vars, ct_vars, cp_vars, hp_tokens, hp_position, hp_stack, hp_nodes, hp_document>>

\* parse_node, called by parse
NodeStartTag ==
    /\ hp_pc = "node"
    /\ hp_current_token.kind = "StartTag"
    /\ EnterElement
    /\ UNCHANGED <<ht_vars, ct_vars, cp_vars, hp_tokens, hp_document>>

NodeText ==
    /\ hp_pc = "node"
    /\ hp_current_token.kind = "Text"
    /\ hp_position' = hp_advance(hp_position)
    /\ LET trimmed == Trim(hp_current_token.text) IN
       IF trimmed # <<>>
       THEN Deliver(hp_stack, Text(trimmed))
       ELSE UNCHANGED <<hp_stack, hp_nodes, hp_pc>>
    /\ UNCHANGED <<ht_vars, ct_vars, cp_vars, hp_tokens, hp_document>>

NodeComment ==
    /\ hp_pc = "node"
    /\ hp_current_token.kind = "Comment"
    /\ hp_position' = hp_advance(hp_position)
    /\ Deliver(hp_stack, Comment(hp_current_token.text))
    /\ UNCHANGED <<ht_vars, ct_vars, cp_vars, hp_tokens, hp_document>>

\* parse_node returns None and leaves the token where it is
NodeEndTag ==
    /\ hp_pc = "node"
    /\ hp_current_token.kind = "EndTag"
    /\ hp_pc' = "top"
    /\ UNCHANGED <<ht_vars, ct_vars, cp_vars, hp_tokens, hp_position, hp_stack, hp_nodes, hp_document>>

NodeDoctype ==
    /\ hp_pc = "node"
    /\ hp_current_token.kind = "Doctype"
    /\ hp_position' = hp_advance(hp_position)
    /\ UNCHANGED <<ht_vars, ct_vars, cp_vars, hp_tokens, hp_stack, hp_nodes, hp_pc, hp_document>>

\* current_token()? on an exhausted buffer, after a Doctype or blank Text
NodeNone ==
    /\ hp_pc = "node"
    /\ hp_current_token = None
    /\ hp_pc' = "top"
    /\ UNCHANGED <<ht_vars, ct_vars, cp_vars, hp_tokens, hp_position, hp_stack, hp_nodes, hp_document>>

\* parse_element: one turn of the content loop of the innermost open element
\* the close with the names compared without regard to letter case
ElemClose_AnyCase ==
    /\ hp_pc = "elem"
    /\ hp_current_token.kind = "EndTag"
    /\ ToLowercase(hp_current_token.name) = ToLowercase(Last(hp_stack).tag_name)
    /\ hp_position' = hp_advance(hp_position)
    /\ ReturnElement
    /\ UNCHANGED <<ht_vars, ct_vars, cp_vars, hp_tokens, hp_document>>

ElemClose ==
    /\ hp_pc = "elem"
    /\ hp_current_token.kind = "EndTag"
    /\ hp_current_token.name = Last(hp_stack).tag_name
    /\ hp_position' = hp_advance(hp_position)
    /\ ReturnElement
    /\ UNCHANGED <<ht_vars, ct_vars, cp_vars, hp_tokens, hp_document>>

ElemStartTag ==
    /\ hp_pc = "elem"
    /\ hp_current_token.kind = "StartTag"
    /\ EnterElement
    /\ UNCHANGED <<ht_vars, ct_vars, cp_vars, hp_tokens, hp_document>>

\* the content loop taking the text of the token as it is
ElemText_Untrimmed ==
    /\ hp_pc = "elem"
    /\ hp_current_token.kind = "Text"
    /\ LET trimmed == hp_current_token.text IN
       IF trimmed # <<>>
       THEN Deliver(hp_stack, Text(trimmed))
       ELSE UNCHANGED <<hp_stack, hp_nodes, hp_pc>>
    /\ hp_position' = hp_advance(hp_position)
    /\ UNCHANGED <<ht_vars, ct_vars, cp_vars, hp_tokens, hp_document>>

ElemText ==
    /\ hp_pc = "elem"
    /\ hp_current_token.kind = "Text"
    /\ LET trimmed == Trim(hp_current_token.text) IN
       IF trimmed # <<>>
       THEN Deliver(hp_stack, Text(trimmed))
       ELSE UNCHANGED <<hp_stack, hp_nodes, hp_pc>>
    /\ hp_position' = hp_advance(hp_position)
    /\ UNCHANGED <<ht_vars, ct_vars, cp_vars, hp_tokens, hp_document>>

ElemComment ==
    /\ hp_pc = "elem"
    /\ hp_current_token.kind = "Comment"
    /\ Deliver(hp_stack, Comment(hp_current_token.text))
    /\ hp_position' = hp_advance(hp_position)
    /\ UNCHANGED <<ht_vars, ct_vars, cp_vars, hp_tokens, hp_document>>

\* the arm with an advance() before its break
ElemOtherEndTag_Consumes ==
    /\ hp_pc = "elem"
    /\ hp_current_token.kind = "EndTag"
    /\ hp_current_token.name # Last(hp_stack).tag_name
    /\ hp_position' = hp_advance(hp_position)
    /\ ReturnElement
    /\ UNCHANGED <<ht_vars, ct_vars, cp_vars, hp_tokens, hp_document>>

\* an EndTag of another name: break, the token stays
ElemOtherEndTag ==
    /\ hp_pc = "elem"
    /\ hp_current_token.kind = "EndTag"
    /\ hp_current_token.name # Last(hp_stack).tag_name
    /\ ReturnElement
    /\ UNCHANGED <<ht_vars, ct_vars, cp_vars, hp_tokens, hp_position, hp_document>>

\* the content loop keeping a Doctype as a comment of the element
ElemDoctype_Kept ==
    /\ hp_pc = "elem"
    /\ hp_current_token.kind = "Doctype"
    /\ Deliver(hp_stack, Comment(hp_current_token.text))
    /\ hp_position' = hp_advance(hp_position)
    /\ UNCHANGED <<ht_vars, ct_vars, cp_vars, hp_tokens, hp_document>>

ElemDoctype ==
    /\ hp_pc = "elem"
    /\ hp_current_token.kind = "Doctype"
    /\ hp_position' = hp_advance(hp_position)
    /\ UNCHANGED <<ht_vars, ct_vars, cp_vars, hp_tokens, hp_stack, hp_nodes, hp_pc, hp_document>>

\* while let Some(token) = self.current_token() fails: the buffer is exhausted
ElemEndOfInput ==
    /\ hp_pc = "elem"
    /\ hp_current_token = None
    /\ ReturnElement
    /\ UNCHANGED <<ht_vars, ct_vars, cp_vars, hp_tokens, hp_position, hp_document>>

IsHtml(element) == ToLowercase(element.tag_name) = <<"h","t","m","l">>

RECURSIVE FirstHtml(_, _)
\* the `for node in &nodes` loop of parse_document, from nodes[i] on
FirstHtml(nodes, i) ==
    IF i > Len(nodes) THEN None
    ELSE IF nodes[i].kind = "Element" /\ IsHtml(nodes[i]) THEN nodes[i]
    ELSE FirstHtml(nodes, i + 1)

RECURSIVE FirstElement(_, _)
\* nodes.into_iter().find(|n| matches!(n, Node::Element(_))), from nodes[i] on
FirstElement(nodes, i) ==
    IF i > Len(nodes) THEN None
    ELSE IF nodes[i].kind = "Element" THEN nodes[i]
    ELSE FirstElement(nodes, i + 1)

\* parse_document without its search for "html"
DocumentOf_FirstElement(nodes) == FirstElement(nodes, 1)

\* parse_document, once parse has returned
DocumentOf(nodes) ==
    LET html == FirstHtml(nodes, 1) IN
    IF html # None THEN html ELSE FirstElement(nodes, 1)

ParseDocument ==
    /\ hp_pc = "done"
    /\ hp_document' = DocumentOf(hp_nodes)
    /\ hp_pc' = "returned"
    /\ UNCHANGED <<ht_vars, ct_vars, cp_vars, hp_tokens, hp_position, hp_stack, hp_nodes>>

----------------------------------------------------------------------------
(* The token buffers the parser is run on: every sequence of at most        *)
(* MaxTokens tokens of TokenAlphabet, each a token the tokenizer emits.     *)

AttrsDup == << <<<<"k">>, <<"1">>>>, <<<<"j">>, <<>>>>, <<<<"k">>, <<"2">>>> >>

TokenAlphabet ==
    { StartTag(<<"a">>, <<>>, FALSE),
      StartTag(<<"b">>, AttrsDup, FALSE),
      StartTag(<<"B","R">>, <<>>, FALSE),
      StartTag(<<"H","t","m","l">>, <<>>, TRUE),
      EndTag(<<"a">>),
      EndTag(<<"b">>),
      Text(<<"x"," ">>),
      Comment(<<"c">>),
      Doctype(<<"d">>) }

TokenBuffers == UNION {[1..n -> TokenAlphabet] : n \in 0..MaxTokens}

\* the buffers of tags whose names differ in letter case only
CaseAlphabet ==
    { StartTag(<<"a">>, <<>>, FALSE),
      StartTag(<<"I","m","g">>, <<>>, FALSE),
      EndTag(<<"a">>),
      EndTag(<<"A">>),
      Text(<<"x">>) }

CaseBuffers == UNION {[1..n -> CaseAlphabet] : n \in 0..MaxTokens}

HpInit ==
    /\ HtIdle
    /\ CtIdle
    /\ CpIdle
    /\ hp_tokens \in TokenBuffers \cup CaseBuffers
    /\ hp_position = 0
    /\ hp_stack = <<>>
    /\ hp_nodes = <<>>
    /\ hp_pc = "top"
    /\ hp_document = None

\* no HTML parser is under study
HpIdle ==
    /\ hp_tokens = <<>>
    /\ hp_position = 0
    /\ hp_stack = <<>>
    /\ hp_nodes = <<>>
    /\ hp_pc = "idle"
    /\ hp_document = None

HpNext ==
    \/ ParseLoop
    \/ NodeStartTag
    \/ NodeText
    \/ NodeComment
    \/ NodeEndTag
    \/ NodeDoctype
    \/ NodeNone
    \/ ElemClose
    \/ ElemStartTag
    \/ ElemText
    \/ ElemComment
    \/ ElemOtherEndTag
    \/ ElemDoctype
    \/ ElemEndOfInput
    \/ ParseDocument

CtInit ==
    /\ \E input \in CssTexts \cup CssStrings : CtNew(input)
    /\ HtIdle
    /\ CpIdle
    /\ HpIdle

CtSpec == CtInit /\ [][CtNext]_vars

HtInit ==
    /\ CtIdle
    /\ \/ \E input \in HtTexts \cup HtComments \cup HtOpenQuotes :
            HtNew(input) /\ ht_written = Unset
       \/ \E written \in HtTags : HtNew(WriteTag(written)) /\ ht_written = Written(written)
    /\ CpIdle
    /\ HpIdle

HtSpec == HtInit /\ [][HtNext]_vars

\* either tokenizer, on its inputs
TkInit == HtInit \/ CtInit

TkNext == HtNext \/ CtNext

TkSpec == TkInit /\ [][TkNext]_vars

\* the buffers of one rule whose body is any sequence of at most MaxBody tokens
\* of BodyAlphabet: declarations well formed or not, closed or not
BodyAlphabet == {CssIdent(<<"p">>), CssPunct(":"), CssPunct(";"), CssPunct("}")}

RuleBodies ==
    { <<CssIdent(<<"a">>), CssPunct("{")>> \o body :
        body \in UNION {[1..n -> BodyAlphabet] : n \in 0..MaxBody} }

\* a stylesheet written with a comment
Commented(rules) == [kind |-> "Commented", rules |-> rules]

\* a token buffer with a Comment token put in after its first k tokens
WithComment(tokens, k) ==
    SubSeq(tokens, 1, k) \o <<CssComment(<<"c">>)>> \o SubSeq(tokens, k + 1, Len(tokens))

\* the stylesheets of one rule of RuleForms, to be written with a comment
CommentedSheets == { <<r>> : r \in RuleForms }

CpInit ==
    /\ HtIdle
    /\ CtIdle
    /\ \/ \E tokens \in CssTokenBuffers \cup RuleBodies :
            CpNew(tokens) /\ cp_written = Unset
       \/ \E rules \in Sheets : CpNew(WriteSheet(rules)) /\ cp_written = Sheet(rules)
       \/ \E rules \in CommentedSheets : \E k \in 0..Len(WriteSheet(rules)) :
            CpNew(WithComment(WriteSheet(rules), k)) /\ cp_written = Commented(rules)
    /\ HpIdle

CpSpec == CpInit /\ [][CpNext]_vars

HpSpec == HpInit /\ [][HpNext]_vars

\* parse runs to completion once called: a sequential program keeps stepping
HpFairSpec == HpSpec /\ WF_vars(HpNext)

----------------------------------------------------------------------------
(* Notions the claims about the HTML parser are stated in *)

\* the content list the next node goes to: that of the innermost open
\* element, or the top-level list
Container(stack, nodes) ==
    IF stack = <<>> THEN nodes ELSE Last(stack).children

IsLeafToken(t) ==
    /\ t.kind = "StartTag"
    /\ (t.self_closing \/ ToLowercase(t.name) \in VoidNames)

IsOpenToken(t) == t.kind = "StartTag" /\ ~IsLeafToken(t)

RECURSIVE ElementsIn(_)
\* every Element of a forest, at any depth
ElementsIn(nodes) ==
    UNION { IF nodes[i].kind = "Element"
            THEN {nodes[i]} \cup ElementsIn(nodes[i].children)
            ELSE {} : i \in DOMAIN nodes }

\* every Element built so far: returned, or still open
AllElements == ElementsIn(hp_nodes) \cup ElementsIn(hp_stack)

RECURSIVE BalancedFrom(_, _, _)
\* tokens[i..] closes the open names (innermost last) and nothing else
BalancedFrom(tokens, i, open) ==
    IF i > Len(tokens) THEN open = <<>>
    ELSE LET t == tokens[i] IN
         IF IsOpenToken(t) THEN BalancedFrom(tokens, i + 1, Append(open, t.name))
         ELSE IF t.kind = "EndTag"
         THEN /\ open # <<>>
              /\ Last(open) = t.name
              /\ BalancedFrom(tokens, i + 1, Front(open))
         ELSE BalancedFrom(tokens, i + 1, open)

Balanced(tokens) == BalancedFrom(tokens, 1, <<>>)

\* opening tags less end tags in tokens[i..j]
Depth(tokens, i, j) ==
    Cardinality({k \in i..j : IsOpenToken(tokens[k])})
        - Cardinality({k \in i..j : tokens[k].kind = "EndTag"})

\* the end tag that closes the opening tag at i, in a balanced buffer
MatchOf(tokens, i) ==
    CHOOSE j \in (i + 1)..Len(tokens) :
        /\ Depth(tokens, i, j) = 0
        /\ \A k \in (i + 1)..(j - 1) : Depth(tokens, i, k) > 0

\* the mapping a sequence of (name, value) pairs stands for when the last
\* occurrence of a name decides
LastWins(attributes) ==
    [n \in {attributes[i][1] : i \in DOMAIN attributes} |->
        LET last == CHOOSE i \in DOMAIN attributes :
                        /\ attributes[i][1] = n
                        /\ \A j \in DOMAIN attributes :
                               attributes[j][1] = n => j <= i
        IN attributes[last][2]]

RECURSIVE ForestOf(_, _, _)
\* the forest tokens[lo..hi] of a balanced buffer denotes
ForestOf(tokens, lo, hi) ==
    IF lo > hi THEN <<>>
    ELSE LET t == tokens[lo] IN
         CASE t.kind = "Text" ->
                (IF Trim(t.text) # <<>> THEN <<Text(Trim(t.text))>> ELSE <<>>)
                    \o ForestOf(tokens, lo + 1, hi)
           [] t.kind = "Comment" ->
                <<Comment(t.text)>> \o ForestOf(tokens, lo + 1, hi)
           [] t.kind = "Doctype" -> ForestOf(tokens, lo + 1, hi)
           [] IsLeafToken(t) ->
                <<Element(t.name, LastWins(t.attributes), <<>>)>>
                    \o ForestOf(tokens, lo + 1, hi)
           [] IsOpenToken(t) ->
                LET m == MatchOf(tokens, lo) IN
                <<Element(t.name, LastWins(t.attributes),
                          ForestOf(tokens, lo + 1, m - 1))>>
                    \o ForestOf(tokens, m + 1, hi)

HpReturned == hp_pc \in {"done", "returned"}

----------------------------------------------------------------------------
(* Claims about the HTML parser *)

\* C1: HtmlParser::parse terminates for every finite token sequence: the
\* top-level loop eventually reaches position == tokens.len() and returns.
C1_ParseTerminates ==
    <>(hp_pc = "done" /\ hp_position = Len(hp_tokens))

\* C2: at top level a stray Doctype or EndTag token is passed over without
\* producing a node: parse_node, called by parse on such a token, leaves the
\* position one token further and the node list as it was.
C2_StrayTokensPassedOver ==
    [][(/\ hp_pc = "node"
        /\ hp_stack = <<>>
        /\ hp_current_token.kind \in {"EndTag", "Doctype"})
       => (hp_position' = hp_position + 1 /\ hp_nodes' = hp_nodes)]_vars

\* C3: on a balanced token buffer parse never meets an EndTag at top level
\* (the one turn of its loop that consumes nothing), and when it returns it has
\* consumed every token and the forest is the one the nesting denotes: the
\* children of an element are the nodes of the tokens between its StartTag
\* and its matching EndTag, in source order.
C3_BalancedForest ==
    Balanced(hp_tokens) =>
        /\ ~(hp_pc = "node" /\ hp_current_token.kind = "EndTag")
        /\ HpReturned =>
              /\ hp_position = Len(hp_tokens)
              /\ hp_nodes = ForestOf(hp_tokens, 1, Len(hp_tokens))

C3_Witness ==
    /\ hp_pc = "done"
    /\ Balanced(hp_tokens)
    /\ Len(hp_tokens) = 4
    /\ IsOpenToken(hp_tokens[1])
    /\ IsOpenToken(hp_tokens[2])
    /\ Len(hp_nodes) = 1
    /\ Len(hp_nodes[1].children) = 1
    /\ hp_nodes[1].children[1].kind = "Element"

\* C4: an Element with a void tag name has no children, and the step that
\* consumes a self-closing or void StartTag opens no element: it appends the
\* Element, with no children, to the content list of the enclosing element
\* (or to the top level), where the nodes of the following tokens join it.
C4_VoidHasNoChildren ==
    /\ [](\A e \in AllElements :
            ToLowercase(e.tag_name) \in VoidNames => e.children = <<>>)
    /\ [][(/\ hp_pc \in {"node", "elem"}
           /\ IsLeafToken(hp_current_token))
          => LET was == Container(hp_stack, hp_nodes)
                 now == Container(hp_stack', hp_nodes')
             IN /\ Len(hp_stack') = Len(hp_stack)
                /\ Len(now) = Len(was) + 1
                /\ SubSeq(now, 1, Len(was)) = was
                /\ Last(now).kind = "Element"
                /\ Last(now).tag_name = hp_current_token.name
                /\ Last(now).children = <<>>
                /\ hp_position' = hp_position + 1]_vars

C4_Witness ==
    /\ hp_pc = "done"
    /\ Len(hp_tokens) = 4
    /\ IsOpenToken(hp_tokens[1])
    /\ IsLeafToken(hp_tokens[2]) /\ ~hp_tokens[2].self_closing
    /\ hp_tokens[3].kind = "Text"
    /\ IsLeafToken(hp_tokens[4]) /\ hp_tokens[4].self_closing
    /\ Len(hp_nodes) = 1
    /\ Len(hp_nodes[1].children) = 3
    /\ hp_nodes[1].children[1].children = <<>>
    /\ hp_nodes[1].children[2].kind = "Text"

\* C5: when the content loop of an open element meets an EndTag of another
\* name, that element alone is returned, with the children it has, to its
\* caller and the position stays on the EndTag; an EndTag of the element's own
\* name is consumed as its close.  So the innermost open element of that name
\* consumes it: [StartTag a, StartTag b, EndTag a] yields one top-level a
\* holding an empty b, all tokens consumed.
C5_MismatchedEndTagLeft ==
    /\ [][(hp_pc = "elem" /\ hp_current_token.kind = "EndTag")
          => /\ hp_position' =
                   IF hp_current_token.name = Last(hp_stack).tag_name
                   THEN hp_position + 1 ELSE hp_position
             /\ Len(hp_stack') = Len(hp_stack) - 1
             /\ Container(hp_stack', hp_nodes')
                   = Append(Container(Front(hp_stack), hp_nodes), Last(hp_stack))
             /\ Len(hp_stack) > 1 => Front(hp_stack') = Front(Front(hp_stack))]_vars
    /\ []((/\ HpReturned
           /\ Len(hp_tokens) = 3
           /\ IsOpenToken(hp_tokens[1]) /\ hp_tokens[1].name = <<"a">>
           /\ IsOpenToken(hp_tokens[2]) /\ hp_tokens[2].name = <<"b">>
           /\ hp_tokens[3] = EndTag(<<"a">>))
          => /\ hp_position = 3
             /\ Len(hp_nodes) = 1
             /\ hp_nodes[1].tag_name = <<"a">>
             /\ Len(hp_nodes[1].children) = 1
             /\ hp_nodes[1].children[1].tag_name = <<"b">>
             /\ hp_nodes[1].children[1].children = <<>>)

C5_Witness ==
    /\ hp_pc = "done"
    /\ Len(hp_tokens) = 3
    /\ IsOpenToken(hp_tokens[1]) /\ hp_tokens[1].name = <<"a">>
    /\ IsOpenToken(hp_tokens[2]) /\ hp_tokens[2].name = <<"b">>
    /\ hp_tokens[3] = EndTag(<<"a">>)
    /\ hp_position = 3

\* C6: parse_document returns the first top-level Element named "html" in any
\* letter case, whatever precedes it; with none, the first top-level Element;
\* with no top-level Element, nothing.
C6_DocumentChoice ==
    hp_pc = "returned" =>
        LET elems == {i \in DOMAIN hp_nodes : hp_nodes[i].kind = "Element"}
            htmls == {i \in elems :
                         ToLowercase(hp_nodes[i].tag_name) = <<"h","t","m","l">>}
            First(S) == CHOOSE i \in S : \A j \in S : i <= j
        IN IF htmls # {} THEN hp_document = hp_nodes[First(htmls)]
           ELSE IF elems # {} THEN hp_document = hp_nodes[First(elems)]
           ELSE hp_document = None

C6_Witness ==
    /\ hp_pc = "returned"
    /\ Len(hp_nodes) >= 2
    /\ hp_nodes[1].kind = "Element"
    /\ hp_nodes[1].tag_name = <<"B","R">>
    /\ hp_nodes[2].kind = "Element"
    /\ hp_document = hp_nodes[2]

\* C8: the Element built from a StartTag has one attribute entry per distinct
\* name of the tag's attribute sequence, holding the value of the name's last
\* occurrence.
C8_LastAttributeWins ==
    [][(/\ hp_pc \in {"node", "elem"}
        /\ hp_current_token.kind = "StartTag")
       => LET built == IF Len(hp_stack') > Len(hp_stack)
                       THEN Last(hp_stack')
                       ELSE Last(Container(hp_stack', hp_nodes'))
              attrs == hp_current_token.attributes
          IN /\ built.kind = "Element"
             /\ DOMAIN built.attributes = {attrs[i][1] : i \in DOMAIN attrs}
             /\ \A i \in DOMAIN attrs :
                   (\A j \in DOMAIN attrs : attrs[j][1] = attrs[i][1] => j <= i)
                      => built.attributes[attrs[i][1]] = attrs[i][2]]_vars

C8_Witness ==
    \E e \in AllElements :
        /\ DOMAIN e.attributes = {<<"k">>, <<"j">>}
        /\ e.attributes[<<"k">>] = <<"2">>
        /\ e.attributes[<<"j">>] = <<>>

RECURSIVE TextsIn(_)
\* every Text node of a forest, at any depth
TextsIn(nodes) ==
    UNION { IF nodes[i].kind = "Element" THEN TextsIn(nodes[i].children)
            ELSE IF nodes[i].kind = "Text" THEN {nodes[i]}
            ELSE {} : i \in DOMAIN nodes }

\* C27: every Text node the parser has built, at top level or as a child at
\* any depth, is not empty and has no whitespace at its start or its end: it is
\* the trimmed text of a Text token.  (The tokenizer returns no Text token that
\* is empty once trimmed, so the parser meets none to discard.)
C27_TextNodesTrimmed ==
    \A t \in TextsIn(hp_nodes) \cup TextsIn(hp_stack) :
        /\ t.text # <<>>
        /\ ~IsWhitespace(Head(t.text))
        /\ ~IsWhitespace(Last(t.text))
        /\ \E i \in 1..Len(hp_tokens) :
              hp_tokens[i].kind = "Text" /\ t.text = Trim(hp_tokens[i].text)

\* parse has returned a Text node at top level and one as a child, each from a
\* Text token that ends with whitespace
C27_Witness ==
    /\ hp_pc = "done"
    /\ Len(hp_nodes) = 2
    /\ hp_nodes[1].kind = "Text"
    /\ hp_nodes[2].kind = "Element"
    /\ Len(hp_nodes[2].children) = 1
    /\ hp_nodes[2].children[1].kind = "Text"
    /\ \A i \in {1, 3} : IsWhitespace(Last(hp_tokens[i].text))

\* C28: an EndTag closes the open element by match only when its name is the
\* element's name letter for letter: it is then consumed with the element it
\* closes; one that differs from it in letter case only is handled as any other
\* EndTag, the element returned and the EndTag left.  A StartTag is a void
\* element whatever the letter case of its name: 'Img' or 'BR' opens nothing.
C28_CaseOfNames ==
    /\ [][(/\ hp_pc = "elem"
           /\ hp_current_token.kind = "EndTag"
           /\ ToLowercase(hp_current_token.name) = ToLowercase(Last(hp_stack).tag_name))
          => /\ Len(hp_stack') = Len(hp_stack) - 1
             /\ hp_current_token.name = Last(hp_stack).tag_name
                   => hp_position' = hp_position + 1
             /\ hp_current_token.name # Last(hp_stack).tag_name
                   => hp_position' = hp_position]_vars
    /\ [][(/\ hp_pc \in {"node", "elem"}
           /\ hp_current_token.kind = "StartTag"
           /\ ToLowercase(hp_current_token.name) \in VoidNames)
          => /\ Len(hp_stack') = Len(hp_stack)
             /\ Last(Container(hp_stack', hp_nodes')).tag_name = hp_current_token.name
             /\ Last(Container(hp_stack', hp_nodes')).children = <<>>
             /\ hp_position' = hp_position + 1]_vars

\* the element a has been returned at an EndTag A, which is left, with the
\* void element Img as its only child
C28_Witness ==
    /\ Len(hp_tokens) = 3
    /\ hp_tokens[1] = StartTag(<<"a">>, <<>>, FALSE)
    /\ hp_tokens[2] = StartTag(<<"I","m","g">>, <<>>, FALSE)
    /\ hp_tokens[3] = EndTag(<<"A">>)
    /\ hp_position = 2
    /\ hp_stack = <<>>
    /\ Len(hp_nodes) = 1
    /\ hp_nodes[1].tag_name = <<"a">>
    /\ Len(hp_nodes[1].children) = 1
    /\ hp_nodes[1].children[1].tag_name = <<"I","m","g">>
    /\ hp_nodes[1].children[1].children = <<>>

\* a node without its children
Shallow(node) == IF node.kind = "Element" THEN [node EXCEPT !.children = <<>>] ELSE node

\* the nodes of a forest in pre-order, each without its children
RECURSIVE Preorder(_)
Preorder(nodes) ==
    IF nodes = <<>> THEN <<>>
    ELSE <<Shallow(Head(nodes))>>
            \o (IF Head(nodes).kind = "Element" THEN Preorder(Head(nodes).children)
                ELSE <<>>)
            \o Preorder(Tail(nodes))

\* the nodes the tokens stand for, in the order of the tokens: an Element for
\* a StartTag, a Comment for a Comment, a Text for a Text that is not empty once
\* trimmed, none for a Doctype or an EndTag
RECURSIVE NodesOfTokens(_)
NodesOfTokens(tokens) ==
    IF tokens = <<>> THEN <<>>
    ELSE LET t == Head(tokens) IN
         (CASE t.kind = "StartTag" -> <<Element(t.name, AttrMap(t.attributes), <<>>)>>
            [] t.kind = "Comment" -> <<Comment(t.text)>>
            [] t.kind = "Text" -> IF Trim(t.text) # <<>> THEN <<Text(Trim(t.text))>> ELSE <<>>
            [] OTHER -> <<>>)
         \o NodesOfTokens(Tail(tokens))

\* C38: when parse has returned, the forest holds one Element for each
\* StartTag, one Comment for each Comment token and one Text for each Text
\* token, and none for a Doctype or an EndTag, and its pre-order is the order of
\* the tokens, whether the tags are balanced or not.
C38_ForestInTokenOrder ==
    HpReturned => Preorder(hp_nodes) = NodesOfTokens(hp_tokens)

\* parse has returned from tokens that are not balanced: the element b is
\* never closed, and a Doctype stands inside the element a
C38_Witness ==
    /\ HpReturned
    /\ ~Balanced(hp_tokens)
    /\ Len(hp_tokens) = 4
    /\ hp_tokens[1] = StartTag(<<"a">>, <<>>, FALSE)
    /\ hp_tokens[2].kind = "Doctype"
    /\ hp_tokens[3].kind = "StartTag"
    /\ hp_tokens[4] = EndTag(<<"a">>)
    /\ Len(hp_nodes) = 1
    /\ Len(Preorder(hp_nodes)) = 2

----------------------------------------------------------------------------
(* Claims about the HTML tokenizer *)

\* C7: the attribute sequence of a StartTag lists the attributes in the order
\* they are written, every occurrence of a repeated name included, and an
\* attribute written without '=' has the empty value.
C7_AttributesInSourceOrder ==
    (ht_written # Unset /\ ht_emitted # <<>>) =>
        LET written == ht_written.attributes IN
        /\ ht_emitted[1].kind = "StartTag"
        /\ ht_emitted[1].attributes =
              [i \in 1..Len(written) |->
                  <<written[i].name,
                    IF written[i].form = "none" THEN <<>> ELSE written[i].value>>]

C7_Witness ==
    /\ ht_written # Unset
    /\ Len(ht_written.attributes) = 3
    /\ ht_written.attributes[1].name = ht_written.attributes[3].name
    /\ ht_written.attributes[1].form = "bare"
    /\ ht_written.attributes[2].form = "none"
    /\ ht_written.attributes[3].form = "dq"
    /\ ht_emitted # <<>>
    /\ Len(ht_emitted[1].attributes) = 3

\* C9: a call of next_token that returns a token leaves the cursor strictly
\* further than it found it, and never beyond the end of the input; so the
\* tokens returned are no more than the bytes consumed.
C9_HtmlTokenAdvances ==
    /\ (ht_ret \notin {None, Unset}) => ht_position > ht_before
    /\ ht_position <= ByteLen(ht_input)
    /\ Len(ht_emitted) <= ht_position

C9_Witness ==
    /\ ht_written = Unset
    /\ Len(ht_emitted) = 3
    /\ ht_ret.kind = "Text"
    /\ ht_position = ByteLen(ht_input)
    /\ ht_position > Len(ht_input)

\* the characters of input at the byte offsets from before up to after
Span(input, before, after) ==
    SubSeq(input, CharIndex(input, before, 1, 0), CharIndex(input, after, 1, 0) - 1)

\* the input from the position the last call of next_token began at, without
\* the whitespace the call skips first
HtRest == TrimStart(SubSeq(ht_input, CharIndex(ht_input, ht_before, 1, 0), Len(ht_input)))

\* the characters the last call of next_token consumed after that whitespace
HtConsumed ==
    TrimStart(SubSeq(ht_input, CharIndex(ht_input, ht_before, 1, 0),
                     CharIndex(ht_input, ht_position, 1, 0) - 1))

\* the places of text where '-->' begins
Terminators(text) ==
    { k \in 1..(Len(text) - 2) : SubSeq(text, k, k + 2) = <<"-", "-", ">">> }

\* the least of a set of numbers that is not empty
Least(S) == CHOOSE k \in S : \A j \in S : k <= j

\* C22: the content of a Comment token is the text between the '<!--' and the
\* first '-->' after it, and the cursor is left just past that '-->', also
\* when further dashes stand before the terminator, as in 'a--->'.  The code
\* reads dashes two at a time: after an odd number of dashes the '-->' is not
\* seen, and the comment runs on to the next terminator or the end of input.
C22_CommentEndsAtFirstTerminator ==
    (ht_ret.kind = "Comment" /\ Terminators(SubSeq(HtRest, 5, Len(HtRest))) # {}) =>
        LET body == SubSeq(HtRest, 5, Len(HtRest))
            k == Least(Terminators(body)) IN
        /\ ht_ret.text = SubSeq(body, 1, k - 1)
        /\ HtConsumed = SubSeq(HtRest, 1, 4 + k + 2)

\* the cursor stands just past a '>' the last call consumed, or at the end of
\* the input
HtPastTag ==
    \/ ht_position = ByteLen(ht_input)
    \/ HtConsumed # <<>> /\ Last(HtConsumed) = ">"

\* C23: for an end tag the tokenizer consumes the name and everything up to and
\* with the next '>', or to the end of input: once an EndTag is returned the
\* cursor is just past a '>' or at the end.  The code skips whitespace after
\* the name and passes a '>' only if it stands right there: anything else
\* before the '>' is left for the next token.
C23_EndTagConsumedToItsEnd ==
    ht_ret.kind = "EndTag" => HtPastTag

\* C24: a StartTag is completed only by consuming its '>' or by the end of
\* input: once a StartTag is returned the cursor is just past a '>' or at the
\* end.  The code returns the tag where parse_attributes stops, at a character
\* no attribute name begins with or after a '/' no '>' follows.
C24_StartTagConsumedToItsEnd ==
    ht_ret.kind = "StartTag" => HtPastTag

\* the characters of a text
Chars(text) == {text[i] : i \in 1..Len(text)}

\* text is a tag cut short in a quoted attribute value
IsOpenQuote(text) ==
    /\ Len(text) >= 6
    /\ SubSeq(text, 1, 5) = <<"<", "a", " ", "k", "=">>
    /\ text[6] \in {"\"", "'"}
    /\ text[6] \notin Chars(SubSeq(text, 7, Len(text)))

\* C25: the tokenizer has no failure outcome.  A comment with no '-->', a '<!'
\* declaration with no '>' and a tag whose quoted attribute value is not closed
\* each give one token of their kind (Comment, Doctype, StartTag) that holds
\* all there is up to the end of the input, with the cursor at the end; and a
\* call that begins at the end returns None: the stream ends there.
C25_UnterminatedGivesOneToken ==
    /\ (ht_ret.kind = "Comment" /\ Terminators(SubSeq(HtRest, 5, Len(HtRest))) = {}) =>
          /\ ht_ret.text = SubSeq(HtRest, 5, Len(HtRest))
          /\ ht_position = ByteLen(ht_input)
    /\ (ht_ret.kind = "Doctype" /\ ">" \notin Chars(HtRest)) =>
          /\ ht_ret.text = SubSeq(HtRest, 3, Len(HtRest))
          /\ ht_position = ByteLen(ht_input)
    /\ (ht_ret.kind = "StartTag" /\ IsOpenQuote(HtRest)) =>
          /\ ht_ret.attributes = << <<<<"k">>, SubSeq(HtRest, 7, Len(HtRest))>> >>
          /\ ht_position = ByteLen(ht_input)
    /\ (ht_ret # Unset /\ ht_before = ByteLen(ht_input)) => ht_ret = None

\* the stream has ended after the one token of a tag whose attribute value, a
\* '>' in it, no quote closes
C25_Witness ==
    /\ IsOpenQuote(ht_input)
    /\ ">" \in Chars(ht_input)
    /\ Len(ht_emitted) = 1
    /\ ht_emitted[1].kind = "StartTag"
    /\ ht_emitted[1].attributes[1][2] # <<>>
    /\ ht_ret = None

\* C26: the whitespace of a text run is kept in the Text token: the whitespace
\* between a '>' and the first other character of the run is content of the
\* token, as the whitespace within the run and at its end is, so the Text
\* returned by a call that began just past a '>' holds every character the call
\* consumed.  The code skips whitespace at the start of every call, before it
\* looks at what follows: the leading whitespace of a text run is dropped.
C26_TextKeepsItsWhitespace ==
    (/\ ht_ret.kind = "Text"
     /\ ht_before > 0
     /\ ht_input[CharIndex(ht_input, ht_before, 1, 0) - 1] = ">") =>
        ht_ret.text = Span(ht_input, ht_before, ht_position)

\* C37: a StartTag is self-closing only if the '/' is the last character
\* before the '>' that closes the tag, or the last character of the input: what
\* the call consumed ends with '/>', or with '/' at the end of the input.  The
\* tokenizer ends the attributes at any '/', takes it for the self-closing
\* mark and returns the token whatever follows: the '/' of <a/b> or of
\* <a k=x/y> sets the flag.
C37_SelfClosingBySlashBeforeEnd ==
    (ht_ret.kind = "StartTag" /\ ht_ret.self_closing) =>
        \/ /\ Len(HtConsumed) >= 2
           /\ SubSeq(HtConsumed, Len(HtConsumed) - 1, Len(HtConsumed)) = <<"/", ">">>
        \/ /\ ht_position = ByteLen(ht_input)
           /\ HtConsumed # <<>>
           /\ Last(HtConsumed) = "/"

----------------------------------------------------------------------------
(* Claims about the CSS tokenizer *)

\* C10: a call of next_token that returns a token leaves the cursor strictly
\* further than it found it, whichever arm of the dispatch produced the token,
\* and never beyond the end of the input; so the tokens returned are no more
\* than the bytes consumed.
C10_CssTokenAdvances ==
    /\ (ct_ret \notin {None, Unset}) => ct_position > ct_before
    /\ ct_position <= ByteLen(ct_input)
    /\ Len(ct_emitted) <= ct_position

C10_Witness ==
    /\ Len(ct_emitted) = 3
    /\ ct_emitted[1].kind = "Delim"
    /\ ct_emitted[2].kind = "Ident"
    /\ ct_emitted[3].kind = "Hash"
    /\ ct_position = ByteLen(ct_input)
    /\ ct_position > Len(ct_input)

\* the input from where the last call of next_token began, and what the call
\* consumed of it
CtRest == SubSeq(ct_input, CharIndex(ct_input, ct_before, 1, 0), Len(ct_input))

CtConsumed == Span(ct_input, ct_before, ct_position)

\* the length of the longest prefix of a text made of digits and '.'
DigitRunLen(text) ==
    CHOOSE n \in 0..Len(text) :
        /\ \A i \in 1..n : IsAsciiDigit(text[i]) \/ text[i] = "."
        /\ n < Len(text) => ~(IsAsciiDigit(text[n + 1]) \/ text[n + 1] = ".")

\* the length of the longest prefix of a text made of identifier characters
IdentRunLen(text) ==
    CHOOSE n \in 0..Len(text) :
        /\ \A i \in 1..n : IsAlphanumeric(text[i]) \/ text[i] \in {"-", "_"}
        /\ n < Len(text) => ~(IsAlphanumeric(text[n + 1]) \/ text[n + 1] \in {"-", "_"})

\* the value of a run of digits and '.': 0 unless it is a decimal
DecimalValue(run) ==
    IF Cardinality({i \in DOMAIN run : run[i] = "."}) > 1 THEN F64(0, <<>>)
    ELSE ParseF64(run)

\* C31: a token that begins with an ASCII digit consumes the longest run of
\* digits and '.', and the character after the run decides its kind: '%'
\* gives Percentage and is consumed, an alphabetic character gives Dimension
\* with the identifier run that begins there as unit, anything else or the end
\* of input gives Number.  The value is that of the run, and 0 for a run that
\* is no decimal, which is consumed whole all the same.
C31_NumericToken ==
    (ct_ret \notin {None, Unset} /\ CtRest # <<>> /\ IsAsciiDigit(CtRest[1])) =>
        LET n == DigitRunLen(CtRest)
            run == SubSeq(CtRest, 1, n)
            after == SubSeq(CtRest, n + 1, Len(CtRest))
        IN
        IF after # <<>> /\ after[1] = "%"
        THEN /\ ct_ret = CssPercentage(DecimalValue(run))
             /\ CtConsumed = SubSeq(CtRest, 1, n + 1)
        ELSE IF after # <<>> /\ IsAlphabetic(after[1])
        THEN /\ ct_ret = CssDimension(DecimalValue(run),
                                      SubSeq(after, 1, IdentRunLen(after)))
             /\ CtConsumed = SubSeq(CtRest, 1, n + IdentRunLen(after))
        ELSE /\ ct_ret = CssNumber(DecimalValue(run))
             /\ CtConsumed = run

\* the run '1..' has been read whole as the Number 0
C31_Witness ==
    /\ ct_input = <<"1", ".", ".">>
    /\ ct_ret = CssNumber(F64(0, <<>>))
    /\ ct_position = 3

\* the character at i of a text is escaped: a backslash that is not itself
\* escaped stands right before it
RECURSIVE Escaped(_, _)
Escaped(text, i) == i > 1 /\ text[i - 1] = "\\" /\ ~Escaped(text, i - 1)

\* the characters of a text at the places of a set, in order, from place i on
RECURSIVE Pick(_, _, _)
Pick(text, places, i) ==
    IF i > Len(text) THEN <<>>
    ELSE (IF i \in places THEN <<text[i]>> ELSE <<>>) \o Pick(text, places, i + 1)

\* the places of a text where the quote stands unescaped
Closings(text, quote) == { k \in DOMAIN text : text[k] = quote /\ ~Escaped(text, k) }

\* the content of a string that ends before place k of a text: its characters
\* but the backslashes that escape
Unescaped(text, k) ==
    Pick(text, { i \in 1..(k - 1) : ~(text[i] = "\\" /\ ~Escaped(text, i)) }, 1)

\* C32: a token that begins with a quote is a String of the characters up to
\* the first unescaped occurrence of that quote, each escaping backslash left
\* out and the character after it kept as it is, and the cursor is left past
\* the closing quote; with no such quote the String runs to the end of input,
\* a last backslash included.
C32_StringToken ==
    (ct_ret \notin {None, Unset} /\ CtRest # <<>> /\ CtRest[1] \in {"\"", "'"}) =>
        LET text == Tail(CtRest)
            ends == Closings(text, CtRest[1])
        IN
        IF ends # {}
        THEN /\ ct_ret = CssString(Unescaped(text, Least(ends)))
             /\ CtConsumed = SubSeq(CtRest, 1, 1 + Least(ends))
        ELSE /\ ct_ret = CssString(Unescaped(text, Len(text) + 1))
             /\ CtConsumed = CtRest

\* the string "\"" with a letter after it: the escaped quote is content, the
\* next quote closes
C32_Witness ==
    /\ ct_input = <<"\"", "\\", "\"", "\"", "a">>
    /\ ct_ret = CssString(<<"\"">>)
    /\ ct_position = 4

\* C33: every run of whitespace gives one Whitespace token and nothing else:
\* no two Whitespace tokens are adjacent in the stream, and no Delim holds a
\* character the run-consuming test takes for whitespace.  The match of
\* next_token knows space, tab, CR and LF only, so a run that begins with a
\* form feed gives Delim('\f').
C33_WhitespaceRunsOneToken ==
    /\ \A i \in 1..(Len(ct_emitted) - 1) :
          ~(ct_emitted[i] = CssWhitespace /\ ct_emitted[i + 1] = CssWhitespace)
    /\ \A i \in 1..Len(ct_emitted) :
          ct_emitted[i].kind = "Delim" => ~IsWhitespace(ct_emitted[i].char)

----------------------------------------------------------------------------
(* Claims about the CSS parser *)

\* CssParser::parse has returned
CpReturned == cp_pc = "returned"

\* what is left of the run of parse: the tokens ahead, and within one position
\* the rule body before the loop of parse before the return
CpMeasure ==
    3 * (Len(cp_tokens) - cp_position)
        + (CASE cp_pc = "rule" -> 2 [] cp_pc = "top" -> 1 [] OTHER -> 0)

\* C11: CssParser::parse returns for every token buffer, and only with the
\* whole buffer consumed: every iteration of its loops brings it nearer to its
\* return, so that there are finitely many of them (a token that begins no rule
\* is passed over), the position never passes the end of the buffer, and when
\* parse returns the position is the length of the buffer.
C11_CssParseConsumesAll ==
    /\ [][CpMeasure' < CpMeasure]_vars
    /\ [](CpMeasure >= 0)
    /\ [](CpReturned => cp_position = Len(cp_tokens))

\* parse has returned a rule from a buffer that begins with a token no rule
\* begins with
C11_Witness ==
    /\ CpReturned
    /\ cp_written = Unset
    /\ cp_tokens # <<>>
    /\ cp_tokens[1].kind = "RightBrace"
    /\ cp_rules # <<>>

\* C12: every rule CssParser::parse has pushed, and so every rule it returns,
\* has at least one selector, whatever the token buffer.
C12_RuleHasSelector ==
    \A i \in 1..Len(cp_rules) : cp_rules[i].selectors # <<>>

\* parse has returned a rule from a buffer that begins with a LeftBrace no
\* selector stands before
C12_Witness ==
    /\ CpReturned
    /\ cp_tokens # <<>>
    /\ cp_tokens[1].kind = "LeftBrace"
    /\ cp_rules # <<>>

\* the buffer was written from a stylesheet of well-formed rules
CpWritten == cp_written.kind = "Sheet"

\* the properties of a sequence of declarations, parsed or written
Properties(declarations) == [j \in 1..Len(declarations) |-> declarations[j].property]

\* C13: from the tokens of k well-formed rules CssParser::parse returns k
\* rules, in the order written, each under its own selectors and with one
\* declaration for each declaration written, in the order written, a property
\* written twice giving two declarations.
C13_RulesAsWritten ==
    (CpReturned /\ CpWritten) =>
        /\ Len(cp_rules) = Len(cp_written.rules)
        /\ \A i \in 1..Len(cp_rules) :
            /\ cp_rules[i].selectors = cp_written.rules[i].selectors
            /\ Properties(cp_rules[i].declarations)
                  = Properties(cp_written.rules[i].declarations)

\* parse has returned the rules of a stylesheet of several rules, one of which
\* declares a property twice
C13_Witness ==
    /\ CpReturned
    /\ CpWritten
    /\ Len(cp_written.rules) > 1
    /\ \E i \in 1..Len(cp_rules) :
        /\ Len(cp_rules[i].declarations) = 2
        /\ cp_rules[i].declarations[1].property = cp_rules[i].declarations[2].property
        /\ cp_rules[i].declarations[1].value # cp_rules[i].declarations[2].value

\* the selector the claim gives to the tokens a simple selector is written with
SelectorOfTokens(tokens) ==
    CASE tokens[1].kind = "Ident" -> SelType(tokens[1].name)
      [] tokens[1].kind = "Hash" -> SelId(tokens[1].name)
      [] tokens[1] = CssDelim(".") /\ tokens[2].kind = "Ident" -> SelClass(tokens[2].name)
      [] tokens[1] = CssDelim("*") -> SelUniversal

\* the selector list written for the rule parse_rule is in
WrittenSelectors == cp_written.rules[Len(cp_rules) + 1].selectors

\* C14: once parse_rule has read a list of n simple selectors separated by
\* commas and passed the LeftBrace after it, its selectors are n, one for each
\* selector written and in that order: Type(name) for an Ident, Id(name) for a
\* Hash, Class(name) for '.' and an Ident, Universal for '*'.
C14_SelectorsAsWritten ==
    (CpWritten /\ cp_pc = "rule") =>
        /\ Len(cp_selectors) = Len(WrittenSelectors)
        /\ \A i \in 1..Len(cp_selectors) :
              cp_selectors[i] = SelectorOfTokens(WriteSelector(WrittenSelectors[i]))

\* parse_rule has read a list of three selectors of different kinds
C14_Witness ==
    /\ CpWritten
    /\ cp_pc = "rule"
    /\ Len(cp_selectors) = 3
    /\ cp_selectors[1].kind = "Class"
    /\ cp_selectors[2].kind = "Id"
    /\ cp_selectors[3].kind = "Universal"

\* the value tokens hold a '!' with Ident("important") right after it
HasImportantPair(value) ==
    \E i \in 1..(Len(value) - 1) : value[i] = CssDelim("!") /\ value[i + 1] = Important

\* the textual rendering of a value token
Rendering(t) ==
    CASE t.kind = "Ident" -> t.name
      [] t.kind = "String" -> <<"\"">> \o t.text \o <<"\"">>
      [] t.kind = "Number" -> F64ToString(t.value)
      [] t.kind = "Dimension" -> F64ToString(t.value) \o t.unit
      [] t.kind = "Percentage" -> F64ToString(t.value) \o <<"%">>
      [] t.kind = "Hash" -> <<"#">> \o t.name
      [] t.kind = "Delim" -> <<t.char>>

\* the renderings of the rendered tokens of a value, in order: those of the
\* kinds above, a '!' and the Ident("important") right after one left out
RECURSIVE Renderings(_)
Renderings(value) ==
    IF value = <<>> THEN <<>>
    ELSE IF Head(value) = CssDelim("!")
         THEN IF Len(value) > 1 /\ value[2] = Important
              THEN Renderings(Tail(Tail(value)))
              ELSE Renderings(Tail(value))
    ELSE IF Head(value).kind \in
                {"Ident", "String", "Number", "Dimension", "Percentage", "Hash", "Delim"}
         THEN <<Rendering(Head(value))>> \o Renderings(Tail(value))
    ELSE Renderings(Tail(value))

\* the value text of a sequence of renderings: the one rendering as it is, or
\* the renderings joined by single spaces and trimmed
ValueText(parts) ==
    IF Len(parts) = 1 THEN parts[1] ELSE Trim(Join(parts, <<" ">>))

\* the positions of the declarations written and parsed: rule i, declaration j
DeclarationsParsed ==
    { ij \in (1..Len(cp_rules)) \X (1..MaxRules + 1) :
        /\ ij[1] <= Len(cp_written.rules)
        /\ ij[2] <= Len(cp_rules[ij[1]].declarations)
        /\ ij[2] <= Len(cp_written.rules[ij[1]].declarations) }

ParsedDeclaration(ij) == cp_rules[ij[1]].declarations[ij[2]]

WrittenValue(ij) == cp_written.rules[ij[1]].declarations[ij[2]].value

\* C15: a declaration is important exactly when its value tokens hold a '!'
\* with Ident("important") right after it, and then its value is the text of
\* the other tokens: neither token of the pair is in it.
C15_ImportantPair ==
    CpWritten =>
        \A ij \in DeclarationsParsed :
            /\ ParsedDeclaration(ij).important = HasImportantPair(WrittenValue(ij))
            /\ HasImportantPair(WrittenValue(ij)) =>
                  ParsedDeclaration(ij).value = ValueText(Renderings(WrittenValue(ij)))

\* an important declaration whose value has a token before the pair
C15_Witness ==
    /\ CpWritten
    /\ \E ij \in DeclarationsParsed :
        /\ ParsedDeclaration(ij).important
        /\ WrittenValue(ij) = <<CssIdent(<<"r">>), CssDelim("!"), Important>>
        /\ ParsedDeclaration(ij).value = <<"r">>

\* C16: a declaration's value is the one rendering of its value tokens as it
\* is, or the two or more renderings with exactly one space between consecutive
\* ones, or empty when no token is rendered.  (A '!' is not a rendered token.)
\* The parser trims the joined text, so a first or last rendering that is
\* whitespace, as that of the form feed Delim the tokenizer emits, is lost.
C16_ValueJoined ==
    CpWritten =>
        \A ij \in DeclarationsParsed :
            ParsedDeclaration(ij).value = Join(Renderings(WrittenValue(ij)), <<" ">>)

\* C17: every selector of every rule CssParser::parse emits is a Type, a Class,
\* an Id or Universal, whatever the token buffer: no Descendant, Child, Adjacent
\* or GeneralSibling selector is built.
C17_SimpleSelectorsOnly ==
    /\ \A i \in 1..Len(cp_rules) : \A j \in 1..Len(cp_rules[i].selectors) :
          cp_rules[i].selectors[j].kind \in {"Type", "Class", "Id", "Universal"}
    /\ \A j \in 1..Len(cp_selectors) :
          cp_selectors[j].kind \in {"Type", "Class", "Id", "Universal"}

\* parse has returned a rule from a buffer that begins with three type
\* selectors no comma separates, as a descendant selector is written
C17_Witness ==
    /\ CpReturned
    /\ Len(cp_tokens) > 3
    /\ \A i \in 1..3 : cp_tokens[i].kind = "Ident"
    /\ cp_tokens[4].kind = "LeftBrace"
    /\ cp_rules # <<>>

\* C20: when parse_rule abandons its attempt (no selector, or no LeftBrace
\* after the selectors), the loop of parse resumes one token after the token
\* the attempt began at.  The code advances from where the attempt stopped: the
\* tokens the selector list took are passed over with one token more.
C20_AbandonedRuleResumesOneOn ==
    [][(cp_pc = "top" /\ cp_pc' = "top") => cp_position' = cp_position + 1]_vars

\* C21: when parse_declaration returns None in a rule body (the token is no
\* Ident, or the Ident has no Colon after it), no declaration is added and the
\* loop of parse_rule resumes one token after the token the attempt began at.
\* The code advances from where the attempt stopped: an Ident with no Colon
\* after it has been consumed, and the token after it is passed over untried.
C21_FailedDeclarationResumesOneOn ==
    [][(cp_pc = "rule" /\ cp_pc' = "rule" /\ cp_declarations' = cp_declarations)
          => cp_position' = cp_position + 1]_vars

\* a declaration starts at the parser's position in a rule body: a property
\* name and a Colon
DeclarationAhead ==
    /\ cp_pc = "rule"
    /\ cp_in_rule_body
    /\ IsIdent(cp_current_token(cp_position))
    /\ cp_current_token(cp_position + 1).kind = "Colon"

\* the positions after the Colon that hold a Semicolon or a RightBrace
ValueStops ==
    { k \in (cp_position + 2)..(Len(cp_tokens) - 1) :
        cp_tokens[k + 1].kind \in {"Semicolon", "RightBrace"} }

\* where the value of the declaration ahead ends
ValueEnd == IF ValueStops = {} THEN Len(cp_tokens) ELSE Least(ValueStops)

\* C29: a declaration is emitted whenever a property name and a Colon are read,
\* its value ending at the first Semicolon or RightBrace after the Colon or, if
\* there is none, at the end of input; a Semicolon there is passed, a
\* RightBrace is left, and the RightBrace the parser is left at closes the rule.
C29_ValueEndsAtTerminator ==
    /\ [][DeclarationAhead
          => /\ Len(cp_declarations') = Len(cp_declarations) + 1
             /\ SubSeq(cp_declarations', 1, Len(cp_declarations)) = cp_declarations
             /\ Last(cp_declarations').property = cp_current_token(cp_position).name
             /\ cp_position' = IF cp_current_token(ValueEnd).kind = "Semicolon"
                               THEN ValueEnd + 1 ELSE ValueEnd]_vars
    /\ [][(cp_pc = "rule" /\ cp_current_token(cp_position).kind = "RightBrace")
          => /\ cp_rules' = Append(cp_rules, Rule(cp_selectors, cp_declarations))
             /\ cp_position' = cp_position + 1
             /\ cp_pc' = "top"]_vars

\* the rule a{p:p} has been parsed: its one declaration has no Semicolon, and
\* the RightBrace it ended at has closed the rule
C29_Witness ==
    /\ cp_tokens = <<CssIdent(<<"a">>), CssPunct("{"), CssIdent(<<"p">>), CssPunct(":"),
                     CssIdent(<<"p">>), CssPunct("}")>>
    /\ cp_position = 6
    /\ Len(cp_rules) = 1
    /\ Len(cp_rules[1].declarations) = 1
    /\ cp_rules[1].declarations[1].value = <<"p">>

\* the renderings of the tokens of a value with every Delim rendered as its
\* character but a '!' that Ident("important") follows at once, which is left
\* out with that identifier
RECURSIVE DelimRenderings(_)
DelimRenderings(value) ==
    IF value = <<>> THEN <<>>
    ELSE IF Head(value) = CssDelim("!") /\ Len(value) > 1 /\ value[2] = Important
         THEN DelimRenderings(Tail(Tail(value)))
    ELSE IF Head(value).kind \in
                {"Ident", "String", "Number", "Dimension", "Percentage", "Hash", "Delim"}
         THEN <<Rendering(Head(value))>> \o DelimRenderings(Tail(value))
    ELSE DelimRenderings(Tail(value))

\* C30: every Delim among the value tokens of a declaration gives its
\* character to the value text, a '!' that anything but Ident("important")
\* follows included; only a '!' with Ident("important") right after it gives
\* none.  The parser passes every '!' without rendering it, so the '!' of
\* a{p:!r} is not in the value.
C30_EveryDelimRendered ==
    CpWritten =>
        \A ij \in DeclarationsParsed :
            ParsedDeclaration(ij).value = ValueText(DelimRenderings(WrittenValue(ij)))

\* C35: while a rule is being parsed the parser has passed no RightBrace since
\* the rule began, so that its declarations come from before the first
\* RightBrace after its LeftBrace; the RightBrace is passed only to close the
\* rule.  A property name with no Colon after it is consumed and the token
\* after it skipped, a RightBrace included: in a{p}b{q:r} the rule a runs on
\* and takes the declaration q.
C35_DeclarationsFromOwnBody ==
    cp_pc = "rule" =>
        \A k \in (cp_start + 1)..cp_position : cp_tokens[k].kind # "RightBrace"

\* the rules CssParser::parse returns of a stylesheet of well-formed rules
ParsedAsWritten(rules) ==
    [i \in 1..Len(rules) |->
        Rule(rules[i].selectors,
             [j \in 1..Len(rules[i].declarations) |->
                 LET d == rules[i].declarations[j] IN
                 Declaration(d.property, ValueText(Renderings(d.value)),
                             HasImportantPair(d.value))])]

\* the parse of a stylesheet as written, which the comment is measured against
SheetParsedAsWritten ==
    (CpReturned /\ CpWritten) => cp_rules = ParsedAsWritten(cp_written.rules)

\* C36: a Comment token between two tokens of a stylesheet changes nothing:
\* parse returns the rules it returns of the stylesheet without it.  The
\* parser keeps Comment tokens in its buffer and reads them as any token that
\* is none of those it looks for: after a selector list the rule is abandoned,
\* after a property name the declaration is.
C36_CommentsChangeNothing ==
    (CpReturned /\ cp_written.kind = "Commented") =>
        cp_rules = ParsedAsWritten(cp_written.rules)

----------------------------------------------------------------------------
(* Claims about both tokenizers *)

\* the characters of a are characters of b, in the order of b and each used once
RECURSIVE IsSubsequence(_, _)
IsSubsequence(a, b) ==
    IF a = <<>> THEN TRUE
    ELSE IF b = <<>> THEN FALSE
    ELSE IF Head(a) = Head(b) THEN IsSubsequence(Tail(a), Tail(b))
    ELSE IsSubsequence(a, Tail(b))

\* the characters an HTML token holds
HtTokenChars(t) ==
    CASE t.kind = "StartTag" ->
            t.name \o Concat([i \in 1..Len(t.attributes) |->
                                  t.attributes[i][1] \o t.attributes[i][2]])
      [] t.kind = "EndTag" -> t.name
      [] OTHER -> t.text

\* the characters a CSS token holds; a number holds none, it has a value
CtTokenChars(t) ==
    CASE t.kind \in {"Ident", "Hash", "AtKeyword"} -> t.name
      [] t.kind \in {"String", "Comment"} -> t.text
      [] t.kind = "Dimension" -> t.unit
      [] t.kind = "Delim" -> <<t.char>>
      [] t.kind \in {"Number", "Percentage", "Whitespace"} -> <<>>
      [] OTHER -> <<CHOOSE c \in DOMAIN Punctuation : Punctuation[c] = t.kind>>

\* the digits and dots a text begins with
RECURSIVE NumericRun(_)
NumericRun(text) ==
    IF text # <<>> /\ (IsAsciiDigit(Head(text)) \/ Head(text) = ".")
    THEN <<Head(text)>> \o NumericRun(Tail(text))
    ELSE <<>>

IsToken(ret) == ret.kind \notin {"None", "Unset"}

\* C18: in both tokenizers a call of next_token leaves the cursor no earlier
\* than it found it and never beyond the end of the input, and the token it
\* returns is made of characters of the input between the two positions, in
\* their order (a number has the value of the digits it begins there with); so
\* the tokens returned so far, one after the other, are made of the characters
\* consumed so far, in their order and each used once: the tokens come in
\* source order and from spans that do not overlap.
C18_TokensFromTheirSpans ==
    /\ ht_before <= ht_position /\ ht_position <= ByteLen(ht_input)
    /\ ct_before <= ct_position /\ ct_position <= ByteLen(ct_input)
    /\ IsToken(ht_ret) =>
          IsSubsequence(HtTokenChars(ht_ret), Span(ht_input, ht_before, ht_position))
    /\ IsToken(ct_ret) =>
          /\ IsSubsequence(CtTokenChars(ct_ret), Span(ct_input, ct_before, ct_position))
          /\ ct_ret.kind \in {"Number", "Percentage", "Dimension"} =>
                ct_ret.value = ParseF64(NumericRun(Span(ct_input, ct_before, ct_position)))
    /\ IsSubsequence(Concat([i \in 1..Len(ht_emitted) |-> HtTokenChars(ht_emitted[i])]),
                     Span(ht_input, 0, ht_position))
    /\ IsSubsequence(Concat([i \in 1..Len(ct_emitted) |-> CtTokenChars(ct_emitted[i])]),
                     Span(ct_input, 0, ct_position))

\* a start tag returned after a text of a two-byte character: its span begins
\* at byte 2, at the second character of the input
C18_Witness ==
    /\ IsToken(ht_ret)
    /\ ht_ret.kind = "StartTag"
    /\ ht_ret.name # <<>>
    /\ ht_before = 2
    /\ ht_input[1] = "é"
    /\ Len(ht_emitted) = 2

\* C34: next_token of either tokenizer returns None only with the cursor at
\* the end of the input, the HTML tokenizer having passed nothing but
\* whitespace in that call, and once it has returned None it returns None at
\* every later call and emits nothing more; no Text token of the HTML
\* tokenizer is empty.
C34_NoneOnlyAtEnd ==
    /\ [](ht_ret = None =>
            /\ ht_position = ByteLen(ht_input)
            /\ ht_current_char = NoChar
            /\ \A c \in Chars(Span(ht_input, ht_before, ht_position)) : IsWhitespace(c))
    /\ [](ct_ret = None =>
            /\ ct_position = ByteLen(ct_input)
            /\ ct_current_char = NoChar
            /\ ct_before = ct_position)
    /\ [](\A i \in 1..Len(ht_emitted) :
            ht_emitted[i].kind = "Text" => ht_emitted[i].text # <<>>)
    /\ [][ht_ret = None => (ht_ret' = None /\ ht_emitted' = ht_emitted)]_vars
    /\ [][ct_ret = None => (ct_ret' = None /\ ct_emitted' = ct_emitted)]_vars

\* the stream of '<a> ' has ended: one token, then None past the space
C34_Witness ==
    /\ ht_input = <<"<", "a", ">", " ">>
    /\ ht_ret = None
    /\ Len(ht_emitted) = 1
    /\ ht_before = 3
    /\ ht_position = 4

----------------------------------------------------------------------------

Init == HpInit

Next == HpNext

Spec == Init /\ [][Next]_vars

====
